---- MODULE Spec2Model ----
(***************************************************************************)
(* Model of the Serene Lens generation client (services/geminiService)    *)
(* and of the calls it makes to the image and video model endpoints.      *)
(*                                                                         *)
(* JavaScript strings that the code inspects (String.includes, regular    *)
(* expressions, template literals) are sequences of one-character         *)
(* strings, so that substring tests and prefix stripping are computed.    *)
(* Strings that are only compared or passed through (model names, aspect  *)
(* ratios, prompts, resolutions) are TLA+ strings.                         *)
(***************************************************************************)
EXTENDS Integers, Sequences, FiniteSets, TLC

\* Upper bound on the number of 10-second waits of one video call (the loop
\* of the code has no bound).
MaxPolls == 3

\* ------------------------------------------------------------------------
\* String literals of the source, as character sequences.
\* FALLBACK_API_KEY stands for the non-empty literal of the source.
\* "FALLBACKKEY"
FALLBACK_API_KEY == <<"F", "A", "L", "L", "B", "A", "C", "K", "K", "E", "Y">>
\* "ENVKEY"
EnvKey == <<"E", "N", "V", "K", "E", "Y">>
\* "403"
Marker403 == <<"4", "0", "3">>
\* "PERMISSION_DENIED"
MarkerPermissionDenied == <<"P", "E", "R", "M", "I", "S", "S", "I", "O", "N", "_", "D", "E", "N", "I", "E", "D">>
\* "404"
Marker404 == <<"4", "0", "4">>
\* "NOT_FOUND"
MarkerNotFound == <<"N", "O", "T", "_", "F", "O", "U", "N", "D">>
\* "Error"
NameError == <<"E", "r", "r", "o", "r">>
\* "ApiError"
NameApiError == <<"A", "p", "i", "E", "r", "r", "o", "r">>
\* "ProgressEvent"
NameProgressEvent == <<"P", "r", "o", "g", "r", "e", "s", "s", "E", "v", "e", "n", "t">>
\* "TypeError"
NameTypeError == <<"T", "y", "p", "e", "E", "r", "r", "o", "r">>
\* ": "
ColonSpace == <<":", " ">>
\* "API Key is missing. Please connect your account."
MsgApiKeyMissing == <<"A", "P", "I", " ", "K", "e", "y", " ", "i", "s", " ", "m", "i", "s", "s", "i", "n", "g", ".", " ", "P", "l", "e", "a", "s", "e", " ", "c", "o", "n", "n", "e", "c", "t", " ", "y", "o", "u", "r", " ", "a", "c", "c", "o", "u", "n", "t", ".">>
\* "No image candidates returned from the API."
MsgNoCandidates == <<"N", "o", " ", "i", "m", "a", "g", "e", " ", "c", "a", "n", "d", "i", "d", "a", "t", "e", "s", " ", "r", "e", "t", "u", "r", "n", "e", "d", " ", "f", "r", "o", "m", " ", "t", "h", "e", " ", "A", "P", "I", ".">>
\* "The model generated a response but no image data was found."
MsgNoImageData == <<"T", "h", "e", " ", "m", "o", "d", "e", "l", " ", "g", "e", "n", "e", "r", "a", "t", "e", "d", " ", "a", " ", "r", "e", "s", "p", "o", "n", "s", "e", " ", "b", "u", "t", " ", "n", "o", " ", "i", "m", "a", "g", "e", " ", "d", "a", "t", "a", " ", "w", "a", "s", " ", "f", "o", "u", "n", "d", ".">>
\* "API Key missing"
MsgVideoKeyMissing == <<"A", "P", "I", " ", "K", "e", "y", " ", "m", "i", "s", "s", "i", "n", "g">>
\* "Video generation failed: "
MsgVideoFailedPrefix == <<"V", "i", "d", "e", "o", " ", "g", "e", "n", "e", "r", "a", "t", "i", "o", "n", " ", "f", "a", "i", "l", "e", "d", ":", " ">>
\* "No video URI returned from the API."
MsgNoVideoUri == <<"N", "o", " ", "v", "i", "d", "e", "o", " ", "U", "R", "I", " ", "r", "e", "t", "u", "r", "n", "e", "d", " ", "f", "r", "o", "m", " ", "t", "h", "e", " ", "A", "P", "I", ".">>
\* "Failed to download generated video."
MsgDownloadFailed == <<"F", "a", "i", "l", "e", "d", " ", "t", "o", " ", "d", "o", "w", "n", "l", "o", "a", "d", " ", "g", "e", "n", "e", "r", "a", "t", "e", "d", " ", "v", "i", "d", "e", "o", ".">>
\* "got status: 403"
MsgStatus403 == <<"g", "o", "t", " ", "s", "t", "a", "t", "u", "s", ":", " ", "4", "0", "3">>
\* "status PERMISSION_DENIED"
MsgPermissionDenied == <<"s", "t", "a", "t", "u", "s", " ", "P", "E", "R", "M", "I", "S", "S", "I", "O", "N", "_", "D", "E", "N", "I", "E", "D">>
\* "got status: 404"
MsgStatus404 == <<"g", "o", "t", " ", "s", "t", "a", "t", "u", "s", ":", " ", "4", "0", "4">>
\* "status NOT_FOUND"
MsgNotFoundStatus == <<"s", "t", "a", "t", "u", "s", " ", "N", "O", "T", "_", "F", "O", "U", "N", "D">>
\* "Requested entity was not found."
MsgEntityNotFound == <<"R", "e", "q", "u", "e", "s", "t", "e", "d", " ", "e", "n", "t", "i", "t", "y", " ", "w", "a", "s", " ", "n", "o", "t", " ", "f", "o", "u", "n", "d", ".">>
\* "got status: 500"
MsgStatus500 == <<"g", "o", "t", " ", "s", "t", "a", "t", "u", "s", ":", " ", "5", "0", "0">>
\* "quota exceeded 4 0 3"
MsgQuota == <<"q", "u", "o", "t", "a", " ", "e", "x", "c", "e", "e", "d", "e", "d", " ", "4", " ", "0", " ", "3">>
\* "Failed to fetch"
MsgFailedToFetch == <<"F", "a", "i", "l", "e", "d", " ", "t", "o", " ", "f", "e", "t", "c", "h">>
\* "unsafe content"
MsgJobFailed == <<"u", "n", "s", "a", "f", "e", " ", "c", "o", "n", "t", "e", "n", "t">>
\* "data:"
DataColon == <<"d", "a", "t", "a", ":">>
\* "data:image/"
DataImageSlash == <<"d", "a", "t", "a", ":", "i", "m", "a", "g", "e", "/">>
\* ";base64,"
Base64Comma == <<";", "b", "a", "s", "e", "6", "4", ",">>
\* "&key="
KeyParam == <<"&", "k", "e", "y", "=">>
\* "png"
SubPng == <<"p", "n", "g">>
\* "jpeg"
SubJpeg == <<"j", "p", "e", "g">>
\* "jpg"
SubJpg == <<"j", "p", "g">>
\* "webp"
SubWebp == <<"w", "e", "b", "p">>
\* "image/png"
MimePng == <<"i", "m", "a", "g", "e", "/", "p", "n", "g">>
\* "image/jpeg"
MimeJpeg == <<"i", "m", "a", "g", "e", "/", "j", "p", "e", "g">>
\* "image/webp"
MimeWebp == <<"i", "m", "a", "g", "e", "/", "w", "e", "b", "p">>
\* "image/gif"
MimeGif == <<"i", "m", "a", "g", "e", "/", "g", "i", "f">>
\* "image/svg+xml"
MimeSvg == <<"i", "m", "a", "g", "e", "/", "s", "v", "g", "+", "x", "m", "l">>
\* "video/mp4"
MimeMp4 == <<"v", "i", "d", "e", "o", "/", "m", "p", "4">>
\* "application/octet-stream"
MimeOctetStream == <<"a", "p", "p", "l", "i", "c", "a", "t", "i", "o", "n", "/", "o", "c", "t", "e", "t", "-", "s", "t", "r", "e", "a", "m">>
\* "QUJD"
PayloadA == <<"Q", "U", "J", "D">>
\* "iVBORw=="
PayloadB == <<"i", "V", "B", "O", "R", "w", "=", "=">>
\* "https://g/v1?alt=media"
VideoUriA == <<"h", "t", "t", "p", "s", ":", "/", "/", "g", "/", "v", "1", "?", "a", "l", "t", "=", "m", "e", "d", "i", "a">>
\* "https://g/v2?alt=media"
VideoUriB == <<"h", "t", "t", "p", "s", ":", "/", "/", "g", "/", "v", "2", "?", "a", "l", "t", "=", "m", "e", "d", "i", "a">>
\* "ABCDEFGHIJKLMNOPQRSTUVWXYZabcdefghijklmnopqrstuvwxyz0123456789+/"
Base64Alphabet == <<"A", "B", "C", "D", "E", "F", "G", "H", "I", "J", "K", "L", "M", "N", "O", "P", "Q", "R", "S", "T", "U", "V", "W", "X", "Y", "Z", "a", "b", "c", "d", "e", "f", "g", "h", "i", "j", "k", "l", "m", "n", "o", "p", "q", "r", "s", "t", "u", "v", "w", "x", "y", "z", "0", "1", "2", "3", "4", "5", "6", "7", "8", "9", "+", "/">>
\* "ABCDEFGHIJKLMNOPQRSTUVWXYZabcdefghijklmnopqrstuvwxyz"
LetterChars == <<"A", "B", "C", "D", "E", "F", "G", "H", "I", "J", "K", "L", "M", "N", "O", "P", "Q", "R", "S", "T", "U", "V", "W", "X", "Y", "Z", "a", "b", "c", "d", "e", "f", "g", "h", "i", "j", "k", "l", "m", "n", "o", "p", "q", "r", "s", "t", "u", "v", "w", "x", "y", "z">>

\* ------------------------------------------------------------------------
\* JavaScript string primitives.

\* The empty string "".
EmptyStr == <<>>

\* JavaScript truthiness of a string: non-empty.
Truthy(s) == Len(s) > 0

\* s.startsWith(p, i-1): p occurs in s at 1-based position i.
OccursAt(s, p, i) ==
  /\ i >= 1
  /\ i + Len(p) - 1 <= Len(s)
  /\ \A k \in 1..Len(p) : s[i + k - 1] = p[k]

\* String.prototype.includes
Includes(s, p) == \E i \in 1..(Len(s) - Len(p) + 1) : OccursAt(s, p, i)

\* The part of s from 1-based position i to the end.
From(s, i) == SubSeq(s, i, Len(s))

\* Length of the longest run of characters of set cs starting at position i.
RECURSIVE RunLength(_, _, _)
RunLength(s, cs, i) ==
  IF i <= Len(s) /\ s[i] \in cs THEN 1 + RunLength(s, cs, i + 1) ELSE 0

Range(s) == {s[i] : i \in 1..Len(s)}

\* The class [a-zA-Z].
Letters == Range(LetterChars)

\* ------------------------------------------------------------------------
\* Errors: JavaScript Error objects, with Error.prototype.toString.

Err(name, message) == [name |-> name, message |-> message]

ErrToString(e) ==
  IF ~Truthy(e.name) THEN e.message
  ELSE IF ~Truthy(e.message) THEN e.name
  ELSE e.name \o ColonSpace \o e.message

\* ------------------------------------------------------------------------
\* Model names and fixed request parameters.

FlashImageModel == "gemini-2.5-flash-image"
ProImageModel == "gemini-3-pro-image-preview"
VeoFastModel == "veo-3.1-fast-generate-preview"
VeoStandardModel == "veo-3.1-generate-preview"

\* The value of a field or variable that is undefined.
Absent == [absent |-> TRUE]

\* setTimeout interval of the polling loop, in milliseconds.
PollIntervalMs == 10000

\* const apiKey = process.env.API_KEY || FALLBACK_API_KEY
ResolveApiKey(env) == IF Truthy(env) THEN env ELSE FALLBACK_API_KEY

\* ------------------------------------------------------------------------
\* extractImage

\* `data:${mimeType};base64,${data}`
DataUri(mime, data) == DataColon \o mime \o Base64Comma \o data

\* A field of a JavaScript object is undefined when the record lacks it.
Has(obj, field) == field \in DOMAIN obj

\* Variant of HasInlineData that accepts empty inline data.
HasInlineData_AllowEmpty(part) ==
  /\ Has(part, "inlineData")
  /\ Has(part.inlineData, "data")

\* part.inlineData && part.inlineData.data
HasInlineData(part) ==
  /\ Has(part, "inlineData")
  /\ Has(part.inlineData, "data")
  /\ Truthy(part.inlineData.data)

\* part.inlineData.mimeType || 'image/png'
PartMimeType(part) ==
  IF Has(part.inlineData, "mimeType") /\ Truthy(part.inlineData.mimeType)
  THEN part.inlineData.mimeType
  ELSE MimePng

Ok(v) == [kind |-> "ok", value |-> v]
Thrown(e) == [kind |-> "err", error |-> e]

\* The for loop over candidate.content.parts, starting at part i.
RECURSIVE ScanParts(_, _)
ScanParts(parts, i) ==
  IF i > Len(parts) THEN Thrown(Err(NameError, MsgNoImageData))
  ELSE IF HasInlineData(parts[i])
       THEN Ok(DataUri(PartMimeType(parts[i]), parts[i].inlineData.data))
       ELSE ScanParts(parts, i + 1)

\* A response is Absent (null) or a record that may have the field
\* candidates; a candidate may have the field content, a content the
\* field parts.
extractImage(response) ==
  IF response = Absent \/ ~Has(response, "candidates")
     \/ Len(response.candidates) = 0
  THEN Thrown(Err(NameError, MsgNoCandidates))
  ELSE LET candidate == response.candidates[1]
       IN IF Has(candidate, "content") /\ Has(candidate.content, "parts")
          THEN ScanParts(candidate.content.parts, 1)
          ELSE Thrown(Err(NameError, MsgNoImageData))

\* ------------------------------------------------------------------------
\* generateImageFromPrompt: requests and the fallback test.

\* Variant of FlashRequest that also sends an image size.
FlashRequest_WithImageSize(prompt, aspectRatio) ==
  [model |-> FlashImageModel, prompt |-> prompt, aspectRatio |-> aspectRatio,
   imageSize |-> "2K"]

\* The generateContent request of the flash paths: aspect ratio only.
FlashRequest(prompt, aspectRatio) ==
  [model |-> FlashImageModel, prompt |-> prompt, aspectRatio |-> aspectRatio]

\* The generateContent request of the first attempt of the default path.
ProRequest(prompt, aspectRatio, resolution) ==
  [model |-> ProImageModel, prompt |-> prompt, aspectRatio |-> aspectRatio,
   imageSize |-> resolution]

\* Variant of IsPermissionOrNotFound that misses the "404" marker.
IsPermissionOrNotFound_No404(msg) ==
  \/ Includes(msg, Marker403)
  \/ Includes(msg, MarkerPermissionDenied)
  \/ Includes(msg, MarkerNotFound)

\* Variant of IsPermissionOrNotFound that falls back on every failure.
IsPermissionOrNotFound_AnyError(msg) == TRUE

\* msg.includes("403") || msg.includes("PERMISSION_DENIED") ||
\* msg.includes("404") || msg.includes("NOT_FOUND")
IsPermissionOrNotFound(msg) ==
  \/ Includes(msg, Marker403)
  \/ Includes(msg, MarkerPermissionDenied)
  \/ Includes(msg, Marker404)
  \/ Includes(msg, MarkerNotFound)

\* The outcome of `await generateContent(...)` followed by extractImage:
\* a rejection is thrown as it is, a response goes through extractImage.
AttemptOutcome(reply) ==
  IF reply.kind = "reject" THEN Thrown(reply.error)
  ELSE extractImage(reply.response)

\* ------------------------------------------------------------------------
\* generateVideoFromImage: preparation of the submission.

\* The alternatives of /^data:image\/(png|jpeg|jpg|webp);base64,/
CleanSubtypes == {SubPng, SubJpeg, SubJpg, SubWebp}

\* imageBase64.replace(/^data:image\/(png|jpeg|jpg|webp);base64,/, '')
cleanBase64(imageBase64) ==
  IF \E t \in CleanSubtypes :
       OccursAt(imageBase64, DataImageSlash \o t \o Base64Comma, 1)
  THEN LET t == CHOOSE u \in CleanSubtypes :
                  OccursAt(imageBase64, DataImageSlash \o u \o Base64Comma, 1)
       IN From(imageBase64, Len(DataImageSlash \o t \o Base64Comma) + 1)
  ELSE imageBase64

\* imageBase64.match(/^data:(image\/[a-zA-Z]+);base64,/)?.[1] || 'image/png'
mimeType(imageBase64) ==
  LET start == Len(DataImageSlash) + 1
      n == RunLength(imageBase64, Letters, start)
  IN IF /\ OccursAt(imageBase64, DataImageSlash, 1)
        /\ n >= 1
        /\ OccursAt(imageBase64, Base64Comma, start + n)
     THEN SubSeq(imageBase64, Len(DataColon) + 1, start + n - 1)
     ELSE MimePng

\* Variant of veoAspectRatio that passes every non-empty ratio through.
veoAspectRatio_PassThrough(aspectRatio) ==
  IF aspectRatio = "" THEN "16:9" ELSE aspectRatio

\* aspectRatio === '9:16' ? '9:16' : '16:9'
veoAspectRatio(aspectRatio) == IF aspectRatio = "9:16" THEN "9:16" ELSE "16:9"

videoConfig(aspectRatio) ==
  [numberOfVideos |-> 1, resolution |-> "720p",
   aspectRatio |-> veoAspectRatio(aspectRatio)]

imagePart(imageBase64) ==
  [imageBytes |-> cleanBase64(imageBase64), mimeType |-> mimeType(imageBase64)]

\* The generateVideos request sent to a model variant.
VideoRequest(model, prompt, imageBase64, aspectRatio) ==
  [model |-> model, prompt |-> prompt, image |-> imagePart(imageBase64),
   config |-> videoConfig(aspectRatio)]

\* Variant of IsNotFound that also takes the permission markers, as the
\* image path does.
IsNotFound_WithPermission(msg) ==
  \/ Includes(msg, Marker403)
  \/ Includes(msg, MarkerPermissionDenied)
  \/ Includes(msg, Marker404)
  \/ Includes(msg, MarkerNotFound)

\* Variant of IsNotFound that looks for "404" alone.
IsNotFound_Only404(msg) == Includes(msg, Marker404)

\* msg.includes("404") || msg.includes("NOT_FOUND")
IsNotFound(msg) == Includes(msg, Marker404) \/ Includes(msg, MarkerNotFound)

\* `${videoUri}&key=${apiKey}`
DownloadUrl(videoUri, apiKey) == videoUri \o KeyParam \o apiKey

\* ------------------------------------------------------------------------
\* FileReader.readAsDataURL: base64 of the blob's bytes behind the blob's
\* type (application/octet-stream for a blob without type).

Sextets(b1, b2, b3) ==
  <<b1 \div 4, (b1 % 4) * 16 + b2 \div 16, (b2 % 16) * 4 + b3 \div 64, b3 % 64>>

B64(n) == Base64Alphabet[n + 1]

RECURSIVE Base64Encode(_)
Base64Encode(bytes) ==
  IF Len(bytes) = 0 THEN EmptyStr
  ELSE IF Len(bytes) = 1
  THEN LET q == Sextets(bytes[1], 0, 0) IN <<B64(q[1]), B64(q[2]), "=", "=">>
  ELSE IF Len(bytes) = 2
  THEN LET q == Sextets(bytes[1], bytes[2], 0)
       IN <<B64(q[1]), B64(q[2]), B64(q[3]), "=">>
  ELSE LET q == Sextets(bytes[1], bytes[2], bytes[3])
       IN <<B64(q[1]), B64(q[2]), B64(q[3]), B64(q[4])>>
          \o Base64Encode(SubSeq(bytes, 4, Len(bytes)))

readAsDataURL(blob) ==
  DataUri(IF Truthy(blob.type) THEN blob.type ELSE MimeOctetStream,
          Base64Encode(blob.bytes))

\* ------------------------------------------------------------------------
\* The service behind the SDK: what a request can be answered with.

\* Errors with which an SDK call (generateContent, generateVideos,
\* getVideosOperation, fetch) can reject.
ServiceErrors ==
  {Err(NameApiError, MsgStatus403), Err(NameApiError, MsgPermissionDenied),
   Err(NameApiError, MsgStatus404), Err(NameApiError, MsgNotFoundStatus),
   Err(NameApiError, MsgEntityNotFound), Err(NameApiError, MsgStatus500),
   Err(NameApiError, MsgQuota), Err(NameTypeError, MsgFailedToFetch)}

TextPart == [text |-> "caption"]
InlinePart(mime, data) == [inlineData |-> [mimeType |-> mime, data |-> data]]
Candidate(parts) == [content |-> [parts |-> parts]]

\* Response shapes of generateContent.
ImageResponses ==
  {Absent,
   [promptFeedback |-> "blocked"],
   [candidates |-> <<>>],
   [candidates |-> <<[finishReason |-> "SAFETY"]>>],
   [candidates |-> <<[content |-> [role |-> "model"]]>>],
   [candidates |-> <<Candidate(<<TextPart>>)>>],
   [candidates |-> <<Candidate(<<TextPart, InlinePart(MimePng, PayloadA)>>)>>],
   [candidates |-> <<Candidate(<<[inlineData |-> [data |-> PayloadB]]>>)>>],
   [candidates |-> <<Candidate(<<InlinePart(MimePng, EmptyStr),
                                 InlinePart(MimeJpeg, PayloadA),
                                 InlinePart(MimeWebp, PayloadB)>>)>>],
   [candidates |-> <<Candidate(<<[inlineData |-> [mimeType |-> MimeGif]],
                                 InlinePart(MimeGif, PayloadB)>>)>>],
   [candidates |-> <<Candidate(<<TextPart>>),
                     Candidate(<<InlinePart(MimePng, PayloadA)>>)>>]}

ImageReplies ==
  {[kind |-> "reject", error |-> e] : e \in ServiceErrors}
  \cup {[kind |-> "response", response |-> r] : r \in ImageResponses}

\* Job handles (operations) returned by generateVideos and
\* getVideosOperation.  A handle may lack the done field.
GeneratedVideo(uri) == [video |-> [uri |-> uri]]
PendingOperations == {[name |-> "op"], [name |-> "op", done |-> FALSE]}
DoneOperations ==
  {[name |-> "op", done |-> TRUE],
   [name |-> "op", done |-> TRUE, error |-> [message |-> MsgJobFailed]],
   [name |-> "op", done |-> TRUE, error |-> [message |-> MsgJobFailed],
    response |-> [generatedVideos |-> <<GeneratedVideo(VideoUriA)>>]],
   [name |-> "op", done |-> TRUE, response |-> [generatedVideos |-> <<>>]],
   [name |-> "op", done |-> TRUE,
    response |-> [generatedVideos |-> <<[video |-> [mimeType |-> "video/mp4"]]>>]],
   [name |-> "op", done |-> TRUE,
    response |-> [generatedVideos |-> <<GeneratedVideo(EmptyStr)>>]],
   [name |-> "op", done |-> TRUE,
    response |-> [generatedVideos |-> <<GeneratedVideo(VideoUriA)>>]],
   [name |-> "op", done |-> TRUE,
    response |-> [generatedVideos |-> <<GeneratedVideo(VideoUriB),
                                        GeneratedVideo(VideoUriA)>>]]}
Operations == PendingOperations \cup DoneOperations

\* Variant of IsDone that takes a handle without done field as done.
IsDone_UnlessFalse(op) == ~("done" \in DOMAIN op /\ ~op.done)

\* operation.done
IsDone(op) == "done" \in DOMAIN op /\ op.done

\* operation.error
OpError(op) == IF "error" \in DOMAIN op THEN op.error ELSE Absent

\* operation.response?.generatedVideos?.[0]?.video?.uri is defined
HasFirstVideoUri(op) ==
  /\ "response" \in DOMAIN op
  /\ Len(op.response.generatedVideos) > 0
  /\ "uri" \in DOMAIN op.response.generatedVideos[1].video

\* operation.response?.generatedVideos?.[0]?.video?.uri
FirstVideoUri(op) == op.response.generatedVideos[1].video.uri

\* Bodies a successful download can carry.
Blobs ==
  {[type |-> MimeMp4, bytes |-> <<0, 0, 0, 24>>],
   [type |-> MimeMp4, bytes |-> <<>>],
   [type |-> EmptyStr, bytes |-> <<255, 216>>]}

\* Inputs of the calls.
Prompts == {"a quiet room", "soft wind"}
AspectRatios == {"16:9", "9:16", "", "4:3"}
Resolutions == {"1K", "2K"}
ImageModels == {ProImageModel, FlashImageModel, "imagen-4"}

\* Source images: data URIs of several declared types, a data URI without
\* a declared type, and a bare payload.
SourceMimes == {MimePng, MimeJpeg, MimeWebp, MimeGif, MimeSvg, EmptyStr}
SourceImages ==
  {DataUri(m, PayloadA) : m \in SourceMimes} \cup {PayloadB}

\* Arguments of the video calls: every source image with the default
\* aspect ratio, and every aspect ratio with one source image.
VideoInputs ==
  {<<i, "16:9">> : i \in SourceImages}
  \cup {<<DataUri(MimePng, PayloadA), a>> : a \in AspectRatios}

EnvApiKeys == {EmptyStr, EnvKey}

\* ------------------------------------------------------------------------
\* The application shell (App.tsx): values held in React state and in the
\* localStorage slot 'serene_gallery_db'.

\* Latest time Date.now() returns; the most entries a collection holds,
\* in the gallery runs and in the session and two-tab runs.
MaxClock == 2
MaxEntries == 3
MaxKept == 1

\* The texts below stand for the longer literals of the source:
\* DEFAULT_PROMPT (part_001), a whitespace-only prompt, the default video
\* prompt of line 195 and the preset 'wind' of line 41.
\* "imagem realista"
DEFAULT_PROMPT == <<"i", "m", "a", "g", "e", "m", " ", "r", "e", "a", "l", "i", "s", "t", "a">>
\* "  "
BlankPrompt == <<" ", " ">>
\* "Movimento natural"
DefaultVideoPrompt == <<"M", "o", "v", "i", "m", "e", "n", "t", "o", " ", "n", "a", "t", "u", "r", "a", "l">>
\* "Vento suave"
WindPreset == <<"V", "e", "n", "t", "o", " ", "s", "u", "a", "v", "e">>
\* "Requested entity was not found"
MarkerEntityNotFound == <<"R", "e", "q", "u", "e", "s", "t", "e", "d", " ", "e", "n", "t", "i", "t", "y", " ", "w", "a", "s", " ", "n", "o", "t", " ", "f", "o", "u", "n", "d">>
\* "API Key invalid or does not have permission. Please try another key."
MsgKeyInvalid == <<"A", "P", "I", " ", "K", "e", "y", " ", "i", "n", "v", "a", "l", "i", "d", " ", "o", "r", " ", "d", "o", "e", "s", " ", "n", "o", "t", " ", "h", "a", "v", "e", " ", "p", "e", "r", "m", "i", "s", "s", "i", "o", "n", ".", " ", "P", "l", "e", "a", "s", "e", " ", "t", "r", "y", " ", "a", "n", "o", "t", "h", "e", "r", " ", "k", "e", "y", ".">>
\* "An unexpected error occurred while generating the image."
MsgUnexpected == <<"A", "n", " ", "u", "n", "e", "x", "p", "e", "c", "t", "e", "d", " ", "e", "r", "r", "o", "r", " ", "o", "c", "c", "u", "r", "r", "e", "d", " ", "w", "h", "i", "l", "e", " ", "g", "e", "n", "e", "r", "a", "t", "i", "n", "g", " ", "t", "h", "e", " ", "i", "m", "a", "g", "e", ".">>
\* "Video generation requires a Paid API Key (Veo model). Please connect a valid key."
MsgPaidKey == <<"V", "i", "d", "e", "o", " ", "g", "e", "n", "e", "r", "a", "t", "i", "o", "n", " ", "r", "e", "q", "u", "i", "r", "e", "s", " ", "a", " ", "P", "a", "i", "d", " ", "A", "P", "I", " ", "K", "e", "y", " ", "(", "V", "e", "o", " ", "m", "o", "d", "e", "l", ")", ".", " ", "P", "l", "e", "a", "s", "e", " ", "c", "o", "n", "n", "e", "c", "t", " ", "a", " ", "v", "a", "l", "i", "d", " ", "k", "e", "y", ".">>
\* "Storage full. Item saved for this session only."
MsgStorageFull == <<"S", "t", "o", "r", "a", "g", "e", " ", "f", "u", "l", "l", ".", " ", "I", "t", "e", "m", " ", "s", "a", "v", "e", "d", " ", "f", "o", "r", " ", "t", "h", "i", "s", " ", "s", "e", "s", "s", "i", "o", "n", " ", "o", "n", "l", "y", ".">>
\* "[object ProgressEvent]"
ObjectProgressEvent == <<"[", "o", "b", "j", "e", "c", "t", " ", "P", "r", "o", "g", "r", "e", "s", "s", "E", "v", "e", "n", "t", "]">>
\* "0123456789"
Digits == <<"0", "1", "2", "3", "4", "5", "6", "7", "8", "9">>

\* null in a variable of type string | null. Every string of the model is
\* a tuple of one-character strings, which this value is not.
Null == <<"null">>

\* Truthiness of a string | null.
IsSet(x) == x # Null /\ x # EmptyStr

Whitespace == {" "}

\* String.prototype.trim
RECURSIVE TrimStart(_)
TrimStart(s) ==
  IF s # <<>> /\ Head(s) \in Whitespace THEN TrimStart(Tail(s)) ELSE s

RECURSIVE TrimEnd(_)
TrimEnd(s) ==
  IF s # <<>> /\ s[Len(s)] \in Whitespace
  THEN TrimEnd(SubSeq(s, 1, Len(s) - 1))
  ELSE s

Trim(s) == TrimEnd(TrimStart(s))

\* Number.prototype.toString of a non-negative integer, also the text
\* JSON.stringify writes for it.
RECURSIVE NumberToString(_)
NumberToString(n) ==
  IF n < 10 THEN <<Digits[n + 1]>>
  ELSE NumberToString(n \div 10) \o <<Digits[(n % 10) + 1]>>

\* The number JSON.parse reads from decimal text.
RECURSIVE ParseNumber(_)
ParseNumber(s) ==
  IF s = <<>> THEN 0
  ELSE 10 * ParseNumber(SubSeq(s, 1, Len(s) - 1))
       + (CHOOSE d \in 0..9 : Digits[d + 1] = s[Len(s)])

\* err.message || String(err): a ProgressEvent has no message and no
\* toString of its own.
StringOf(e) ==
  IF e.name = NameProgressEvent THEN ObjectProgressEvent ELSE ErrToString(e)

\* Variant of ErrorMessage without the || String(err).
ErrorMessage_Only(e) == e.message

ErrorMessage(e) == IF Truthy(e.message) THEN e.message ELSE StringOf(e)

\* The message handleGenerate shows for a rejected image call.
ImageErrorShown(e) ==
  LET errorMessage == ErrorMessage(e)
  IN IF Includes(errorMessage, MarkerEntityNotFound)
        \/ Includes(errorMessage, Marker403)
        \/ Includes(errorMessage, MarkerPermissionDenied)
     THEN MsgKeyInvalid
     ELSE IF Truthy(errorMessage) THEN errorMessage ELSE MsgUnexpected

\* The message handleVideoGeneration shows for a rejected video call.
VideoErrorShown(e) ==
  LET errorMessage == ErrorMessage(e)
  IN IF Includes(errorMessage, MarkerEntityNotFound)
        \/ Includes(errorMessage, Marker404)
     THEN MsgPaidKey
     ELSE errorMessage

\* videoPrompt.trim() || "Movimento natural ..."
FinalVideoPrompt(videoPrompt) ==
  IF Truthy(Trim(videoPrompt)) THEN Trim(videoPrompt) ELSE DefaultVideoPrompt

\* How generateImageFromPrompt and generateVideoFromImage can end, as the
\* client above ends them: a data URI, or one of its errors.
ImageUrls == {DataUri(MimePng, PayloadA), DataUri(MimeJpeg, PayloadB)}
VideoUrls == {readAsDataURL([type |-> MimeMp4, bytes |-> <<0, 0, 0, 24>>])}
ImageCallErrors ==
  {Err(NameApiError, MsgStatus403), Err(NameError, MsgNoImageData)}
VideoCallErrors ==
  {Err(NameApiError, MsgStatus404), Err(NameProgressEvent, EmptyStr)}
ImageCallOutcomes ==
  {Ok(u) : u \in ImageUrls} \cup {Thrown(e) : e \in ImageCallErrors}
VideoCallOutcomes ==
  {Ok(u) : u \in VideoUrls} \cup {Thrown(e) : e \in VideoCallErrors}

\* What the user can type or select.
TypedPrompts == {DEFAULT_PROMPT, BlankPrompt}
TypedVideoPrompts == {EmptyStr, WindPreset}
SelectableAspectRatios == {"16:9", "9:16"}
SelectableResolutions == {"1K", "2K", "4K"}
SelectableModels == {FlashImageModel, ProImageModel}

\* --- gallery entries and their JSON text ---

\* The object literal newMedia of lines 220-228; t1 and t2 are the two
\* readings of Date.now().
NewMedia(t1, t2, url, type, prompt, aspectRatio) ==
  [id |-> NumberToString(t1), userEmail |-> "guest", url |-> url,
   type |-> type, prompt |-> prompt, date |-> t2,
   aspectRatio |-> aspectRatio]

\* JSON.stringify of one entry: an object with the entry's defined
\* members, the number written as decimal text.
StringifyEntry(e) ==
  IF "type" \in DOMAIN e
  THEN [id |-> e.id, userEmail |-> e.userEmail, url |-> e.url,
        type |-> e.type, prompt |-> e.prompt,
        date |-> NumberToString(e.date), aspectRatio |-> e.aspectRatio]
  ELSE [id |-> e.id, userEmail |-> e.userEmail, url |-> e.url,
        prompt |-> e.prompt, date |-> NumberToString(e.date),
        aspectRatio |-> e.aspectRatio]

\* JSON.parse of one object of the list.
ParseEntry(o) ==
  IF "type" \in DOMAIN o
  THEN [id |-> o.id, userEmail |-> o.userEmail, url |-> o.url,
        type |-> o.type, prompt |-> o.prompt,
        date |-> ParseNumber(o.date), aspectRatio |-> o.aspectRatio]
  ELSE [id |-> o.id, userEmail |-> o.userEmail, url |-> o.url,
        prompt |-> o.prompt, date |-> ParseNumber(o.date),
        aspectRatio |-> o.aspectRatio]

RECURSIVE StringifyAll(_)
StringifyAll(list) ==
  IF list = <<>> THEN <<>>
  ELSE <<StringifyEntry(Head(list))>> \o StringifyAll(Tail(list))

RECURSIVE ParseAll(_)
ParseAll(items) ==
  IF items = <<>> THEN <<>>
  ELSE <<ParseEntry(Head(items))>> \o ParseAll(Tail(items))

\* What localStorage.getItem returns: null when the key is absent, else
\* the stored text, which is the JSON text of a list, the JSON text of
\* something that is no list (null), or no JSON text at all.
SlotAbsent == [json |-> "absent"]
SlotCorrupt == [json |-> "corrupt"]
SlotNotAList == [json |-> "null"]

\* JSON.stringify(list)
JSONstringify(list) == [json |-> "array", items |-> StringifyAll(list)]

\* JSON.parse(text): a list, a value that is no list, or a SyntaxError.
JSONparse(text) ==
  IF text.json = "array" THEN [kind |-> "list", list |-> ParseAll(text.items)]
  ELSE IF text.json = "null" THEN [kind |-> "null"]
  ELSE [kind |-> "throw"]

\* Variant of Normalized that makes every entry an image.
Normalized_AlwaysImage(item) ==
  [id |-> item.id, userEmail |-> item.userEmail, url |-> item.url,
   type |-> "image", prompt |-> item.prompt, date |-> item.date,
   aspectRatio |-> item.aspectRatio]

\* { ...item, type: item.type || 'image' }
Normalized(item) ==
  IF "type" \in DOMAIN item THEN item
  ELSE [id |-> item.id, userEmail |-> item.userEmail, url |-> item.url,
        type |-> "image", prompt |-> item.prompt, date |-> item.date,
        aspectRatio |-> item.aspectRatio]

\* Variant of NormalizedAll that returns the entries last to first.
RECURSIVE NormalizedAll_Reversed(_)
NormalizedAll_Reversed(list) ==
  IF list = <<>> THEN <<>>
  ELSE NormalizedAll_Reversed(Tail(list)) \o <<Normalized(Head(list))>>

\* allMedia.map(item => ({ ...item, type: item.type || 'image' }))
RECURSIVE NormalizedAll(_)
NormalizedAll(list) ==
  IF list = <<>> THEN <<>>
  ELSE <<Normalized(Head(list))>> \o NormalizedAll(Tail(list))

\* Variant of WithoutId that keeps the entries with the id.
RECURSIVE WithoutId_Inverted(_, _)
WithoutId_Inverted(list, id) ==
  IF list = <<>> THEN <<>>
  ELSE IF Head(list).id = id
       THEN <<Head(list)>> \o WithoutId_Inverted(Tail(list), id)
       ELSE WithoutId_Inverted(Tail(list), id)

\* Variant of WithoutId that removes the first entry with the id only.
RECURSIVE WithoutId_FirstOnly(_, _)
WithoutId_FirstOnly(list, id) ==
  IF list = <<>> THEN <<>>
  ELSE IF Head(list).id # id
       THEN <<Head(list)>> \o WithoutId_FirstOnly(Tail(list), id)
       ELSE Tail(list)

\* list.filter(img => img.id !== id)
RECURSIVE WithoutId(_, _)
WithoutId(list, id) ==
  IF list = <<>> THEN <<>>
  ELSE IF Head(list).id # id
       THEN <<Head(list)>> \o WithoutId(Tail(list), id)
       ELSE WithoutId(Tail(list), id)

\* Entries an earlier session left in the slot: one written before entries
\* had a type, and a video.
LegacyEntry ==
  [id |-> NumberToString(0), userEmail |-> "guest",
   url |-> DataUri(MimePng, PayloadA), prompt |-> DEFAULT_PROMPT,
   date |-> 0, aspectRatio |-> "9:16"]
EarlierVideo ==
  NewMedia(1, 1, readAsDataURL([type |-> MimeMp4, bytes |-> <<0, 0, 0, 24>>]),
           "video", WindPreset, "16:9")

InitialSlots ==
  {SlotAbsent, SlotCorrupt, SlotNotAList,
   JSONstringify(<<LegacyEntry>>),
   JSONstringify(<<EarlierVideo, LegacyEntry>>)}

\* --- one open tab ---

TabIds == {1, 2}

\* No gallery handler has run; no write to the slot is under way; nothing
\* was stored or deleted.
NoEvent == [op |-> "none"]
NoWrite == [op |-> "none"]
EmptyLedger == [stored |-> {}, deleted |-> {}, overlapped |-> FALSE]

\* The useState initial values of lines 52-75; calls lists the generation
\* calls the tab awaits, lastCall how the latest of them ended, and
\* pendingWrite the text a gallery handler is about to pass to setItem.
InitialTab ==
  [isCheckingKey |-> TRUE,
   prompt |-> DEFAULT_PROMPT,
   aspectRatio |-> "16:9",
   resolution |-> "2K",
   model |-> ProImageModel,
   generatedImage |-> Null,
   generatedVideo |-> Null,
   isLoading |-> FALSE,
   isAnimating |-> FALSE,
   error |-> Null,
   showVideoPrompt |-> FALSE,
   videoPrompt |-> EmptyStr,
   savedMedia |-> <<>>,
   storageError |-> Null,
   calls |-> <<>>,
   lastCall |-> [fn |-> "none"],
   pendingWrite |-> NoWrite]


\* ------------------------------------------------------------------------
\* State of one caller of the generation client.

VARIABLES
  envApiKey,     \* process.env.API_KEY ("" when not set)
  pc,            \* where the call in progress is suspended
  call,          \* the function called and its arguments
  requests,      \* generateContent requests sent by the call, in order
  replies,       \* what each generateContent request was answered with
  attempts,      \* outcome of each answered generateContent attempt
  submissions,   \* generateVideos requests sent by the call, in order
  submitErrors,  \* errors with which submissions were rejected, in order
  operation,     \* the variable `operation` (latest job handle)
  reports,       \* the done field of every job handle received, in order
  waits,         \* number of 10-second timers started
  statusQueries, \* number of getVideosOperation requests sent
  queryErrors,   \* number of getVideosOperation requests rejected
  extractions,   \* number of reads of the first video's uri (line 178)
  fetches,       \* urls fetched by the call, in order
  fetchOutcomes, \* how each fetch ended: "rejected", "notOk" or "ok"
  blob,          \* the downloaded body
  result         \* how the call ended: returned value or thrown error

\* State of the application: the open tabs, the storage slot they share
\* and the clock.
VARIABLES
  tabs,          \* the React state of each tab
  slot,          \* what localStorage holds under 'serene_gallery_db'
  now,           \* the latest value Date.now() returned
  lastOp,        \* the gallery handler that ran last, with its inputs
  ledger         \* entries stored and ids deleted so far, by any tab

appVars == <<tabs, slot, now, lastOp, ledger>>

vars == <<envApiKey, pc, call, requests, replies, attempts, submissions, submitErrors,
          operation, reports, waits, statusQueries, queryErrors, extractions,
          fetches, fetchOutcomes, blob, result, tabs, slot, now, lastOp, ledger>>

imageVars == <<requests, replies, attempts>>
submitVars == <<submissions, submitErrors>>
queryVars == <<statusQueries, queryErrors>>
pollVars == <<operation, reports, waits, extractions, fetches>>
downloadVars == <<fetchOutcomes, blob>>

NoCall == [fn |-> "none"]
NoResult == [kind |-> "none"]

\* Positions at which the call has ended.
Settled == {"returned", "failed"}

apiKey == ResolveApiKey(envApiKey)

\* No call is in progress and none has left a trace.
ClientIdle ==
  /\ pc = "idle"
  /\ call = NoCall
  /\ requests = <<>>
  /\ replies = <<>>
  /\ attempts = <<>>
  /\ submissions = <<>>
  /\ submitErrors = <<>>
  /\ operation = Absent
  /\ reports = <<>>
  /\ waits = 0
  /\ statusQueries = 0
  /\ queryErrors = 0
  /\ extractions = 0
  /\ fetches = <<>>
  /\ fetchOutcomes = <<>>
  /\ blob = Absent
  /\ result = NoResult

Init ==
  /\ envApiKey \in EnvApiKeys
  /\ ClientIdle
  /\ tabs = [t \in TabIds |-> InitialTab]
  /\ slot = SlotAbsent
  /\ now = 1
  /\ lastOp = NoEvent
  /\ ledger = EmptyLedger

Return(v) == pc' = "returned" /\ result' = Ok(v)
Throw(e) == pc' = "failed" /\ result' = Thrown(e)

\* The call ends with the outcome of an attempt.
EndWith(outcome) ==
  IF outcome.kind = "ok" THEN Return(outcome.value) ELSE Throw(outcome.error)

\* ------------------------------------------------------------------------
\* generateImageFromPrompt

\* Entry of generateImageFromPrompt up to its first await.
CallImage(prompt, aspectRatio, resolution, model) ==
  /\ pc = "idle"
  /\ call' = [fn |-> "image", prompt |-> prompt, aspectRatio |-> aspectRatio,
              resolution |-> resolution, model |-> model]
  /\ IF ~Truthy(apiKey)
     THEN /\ Throw(Err(NameError, MsgApiKeyMissing))
          /\ UNCHANGED requests
     ELSE IF model = FlashImageModel
     THEN /\ requests' = <<FlashRequest(prompt, aspectRatio)>>
          /\ pc' = "flash"
          /\ UNCHANGED result
     ELSE /\ requests' = <<ProRequest(prompt, aspectRatio, resolution)>>
          /\ pc' = "pro"
          /\ UNCHANGED result
  /\ UNCHANGED <<envApiKey, replies, attempts, submitVars, queryVars, pollVars,
                 downloadVars>>

\* The request of the explicit flash path is answered.
FlashReply(reply) ==
  /\ pc = "flash"
  /\ replies' = Append(replies, reply)
  /\ attempts' = Append(attempts, AttemptOutcome(reply))
  /\ EndWith(AttemptOutcome(reply))
  /\ UNCHANGED <<envApiKey, call, requests, submitVars, queryVars, pollVars,
                 downloadVars>>

\* The request to the pro model is answered.
ProReply(reply) ==
  /\ pc = "pro"
  /\ LET outcome == AttemptOutcome(reply)
     IN /\ replies' = Append(replies, reply)
        /\ attempts' = Append(attempts, outcome)
        /\ IF outcome.kind = "ok"
           THEN Return(outcome.value) /\ UNCHANGED requests
           ELSE IF IsPermissionOrNotFound(ErrToString(outcome.error))
           THEN /\ requests' =
                     Append(requests, FlashRequest(call.prompt, call.aspectRatio))
                /\ pc' = "fallback"
                /\ UNCHANGED result
           ELSE Throw(outcome.error) /\ UNCHANGED requests
  /\ UNCHANGED <<envApiKey, call, submitVars, queryVars, pollVars,
                 downloadVars>>

\* The fallback request to the flash model is answered.
FallbackReply(reply) ==
  /\ pc = "fallback"
  /\ replies' = Append(replies, reply)
  /\ attempts' = Append(attempts, AttemptOutcome(reply))
  /\ EndWith(AttemptOutcome(reply))
  /\ UNCHANGED <<envApiKey, call, requests, submitVars, queryVars, pollVars,
                 downloadVars>>

\* ------------------------------------------------------------------------
\* generateVideoFromImage

\* Entry of generateVideoFromImage up to the first submission.
CallVideo(prompt, imageBase64, aspectRatio) ==
  /\ pc = "idle"
  /\ call' = [fn |-> "video", prompt |-> prompt, imageBase64 |-> imageBase64,
              aspectRatio |-> aspectRatio]
  /\ IF ~Truthy(apiKey)
     THEN /\ Throw(Err(NameError, MsgVideoKeyMissing))
          /\ UNCHANGED submissions
     ELSE /\ submissions' =
               <<VideoRequest(VeoFastModel, prompt, imageBase64, aspectRatio)>>
          /\ pc' = "submitFast"
          /\ UNCHANGED result
  /\ UNCHANGED <<envApiKey, imageVars, submitErrors, queryVars, pollVars,
                 downloadVars>>

\* Variant of AfterPolling that looks for the video before the error payload.
AfterPolling_UriFirst(op) ==
  IF HasFirstVideoUri(op) /\ Truthy(FirstVideoUri(op))
  THEN /\ extractions' = extractions + 1
       /\ fetches' = Append(fetches, DownloadUrl(FirstVideoUri(op), apiKey))
       /\ pc' = "fetching"
       /\ UNCHANGED result
  ELSE IF OpError(op) # Absent
  THEN /\ Throw(Err(NameError, MsgVideoFailedPrefix \o OpError(op).message))
       /\ UNCHANGED <<extractions, fetches>>
  ELSE /\ extractions' = extractions + 1
       /\ Throw(Err(NameError, MsgNoVideoUri))
       /\ UNCHANGED fetches

\* Lines 174-184: the job is done; decide the outcome or start the download.
AfterPolling(op) ==
  IF OpError(op) # Absent
  THEN /\ Throw(Err(NameError, MsgVideoFailedPrefix \o OpError(op).message))
       /\ UNCHANGED <<extractions, fetches>>
  ELSE /\ extractions' = extractions + 1
       /\ IF ~HasFirstVideoUri(op) \/ ~Truthy(FirstVideoUri(op))
          THEN Throw(Err(NameError, MsgNoVideoUri)) /\ UNCHANGED fetches
          ELSE /\ fetches' =
                    Append(fetches, DownloadUrl(FirstVideoUri(op), apiKey))
               /\ pc' = "fetching"
               /\ UNCHANGED result

\* What a job handle says in its done field.
DoneField(op) ==
  IF "done" \in DOMAIN op THEN (IF op.done THEN "true" ELSE "false")
  ELSE "undefined"

\* Variant of ReceiveOperation that gives up after two waits.
ReceiveOperation_Capped(op) ==
  /\ operation' = op
  /\ reports' = Append(reports, DoneField(op))
  /\ IF IsDone(op)
     THEN AfterPolling(op) /\ UNCHANGED waits
     ELSE IF waits >= 2
     THEN /\ Throw(Err(NameError, MsgDownloadFailed))
          /\ UNCHANGED <<waits, extractions, fetches>>
     ELSE /\ waits' = waits + 1
          /\ pc' = "waiting"
          /\ UNCHANGED <<result, extractions, fetches>>

\* Variant of ReceiveOperation that starts the timer for a done handle too.
ReceiveOperation_WaitsWhenDone(op) ==
  /\ operation' = op
  /\ reports' = Append(reports, DoneField(op))
  /\ waits' = waits + 1
  /\ IF IsDone(op)
     THEN AfterPolling(op)
     ELSE /\ waits < MaxPolls
          /\ pc' = "waiting"
          /\ UNCHANGED <<result, extractions, fetches>>

\* A job handle arrives (from a submission or a status query): the loop
\* test of line 169 and what follows from it.
ReceiveOperation(op) ==
  /\ operation' = op
  /\ reports' = Append(reports, DoneField(op))
  /\ IF IsDone(op)
     THEN AfterPolling(op) /\ UNCHANGED waits
     ELSE /\ waits < MaxPolls
          /\ waits' = waits + 1
          /\ pc' = "waiting"
          /\ UNCHANGED <<result, extractions, fetches>>

\* The submission to the fast variant is rejected.
SubmitFastRejected(e) ==
  /\ pc = "submitFast"
  /\ submitErrors' = Append(submitErrors, e)
  /\ IF IsNotFound(ErrToString(e))
     THEN /\ submissions' =
               Append(submissions,
                      VideoRequest(VeoStandardModel, call.prompt,
                                   call.imageBase64, call.aspectRatio))
          /\ pc' = "submitStandard"
          /\ UNCHANGED result
     ELSE Throw(e) /\ UNCHANGED submissions
  /\ UNCHANGED <<envApiKey, call, imageVars, queryVars, pollVars,
                 downloadVars>>

\* The submission to the fast variant returns a job handle.
SubmitFastAccepted(op) ==
  /\ pc = "submitFast"
  /\ ReceiveOperation(op)
  /\ UNCHANGED <<envApiKey, call, imageVars, submitVars, queryVars,
                 downloadVars>>

\* Variant of SubmitStandardRejected that goes back to the fast variant
\* once more when the standard variant is not found either.
SubmitStandardRejected_Again(e) ==
  /\ pc = "submitStandard"
  /\ submitErrors' = Append(submitErrors, e)
  /\ IF IsNotFound(ErrToString(e)) /\ Len(submissions) < 3
     THEN /\ submissions' =
               Append(submissions,
                      VideoRequest(VeoFastModel, call.prompt,
                                   call.imageBase64, call.aspectRatio))
          /\ pc' = "submitStandard"
          /\ UNCHANGED result
     ELSE Throw(e) /\ UNCHANGED submissions
  /\ UNCHANGED <<envApiKey, call, imageVars, queryVars, pollVars,
                 downloadVars>>

\* The resubmission to the standard variant is rejected: not caught.
SubmitStandardRejected(e) ==
  /\ pc = "submitStandard"
  /\ submitErrors' = Append(submitErrors, e)
  /\ Throw(e)
  /\ UNCHANGED <<envApiKey, call, imageVars, submissions, queryVars, pollVars,
                 downloadVars>>

\* The resubmission to the standard variant returns a job handle.
SubmitStandardAccepted(op) ==
  /\ pc = "submitStandard"
  /\ ReceiveOperation(op)
  /\ UNCHANGED <<envApiKey, call, imageVars, submitVars, queryVars,
                 downloadVars>>

\* The 10-second timer fires and the status query is sent.
TimerFires ==
  /\ pc = "waiting"
  /\ statusQueries' = statusQueries + 1
  /\ pc' = "querying"
  /\ UNCHANGED <<envApiKey, call, imageVars, submitVars, queryErrors,
                 pollVars, downloadVars, result>>

\* The status query is rejected: not caught.
QueryRejected(e) ==
  /\ pc = "querying"
  /\ queryErrors' = queryErrors + 1
  /\ Throw(e)
  /\ UNCHANGED <<envApiKey, call, imageVars, submitVars, statusQueries,
                 pollVars, downloadVars>>

\* The status query returns a job handle.
QueryAnswered(op) ==
  /\ pc = "querying"
  /\ ReceiveOperation(op)
  /\ UNCHANGED <<envApiKey, call, imageVars, submitVars, queryVars,
                 downloadVars>>

\* fetch rejects (network failure): not caught.
FetchRejected(e) ==
  /\ pc = "fetching"
  /\ fetchOutcomes' = Append(fetchOutcomes, "rejected")
  /\ Throw(e)
  /\ UNCHANGED <<envApiKey, call, imageVars, submitVars, queryVars, pollVars,
                 blob>>

\* fetch resolves with a response; a response that is not ok fails the
\* call, otherwise the body is read (await videoResponse.blob()).
FetchResponded(ok, body) ==
  /\ pc = "fetching"
  /\ fetchOutcomes' = Append(fetchOutcomes, IF ok THEN "ok" ELSE "notOk")
  /\ IF ~ok
     THEN Throw(Err(NameError, MsgDownloadFailed)) /\ UNCHANGED blob
     ELSE blob' = body /\ pc' = "reading" /\ UNCHANGED result
  /\ UNCHANGED <<envApiKey, call, imageVars, submitVars, queryVars, pollVars>>

\* The FileReader ends: onloadend resolves with the data URI, onerror
\* rejects before it.
ReaderEnds(readOk) ==
  /\ pc = "reading"
  /\ IF readOk
     THEN Return(readAsDataURL(blob))
     ELSE Throw(Err(NameProgressEvent, EmptyStr))
  /\ UNCHANGED <<envApiKey, call, imageVars, submitVars, queryVars, pollVars,
                 downloadVars>>

\* The caller takes the result (or catches the error) of the settled call;
\* the client keeps nothing from one call to the next.
Settle ==
  /\ pc \in Settled
  /\ pc' = "idle"
  /\ call' = NoCall
  /\ requests' = <<>>
  /\ replies' = <<>>
  /\ attempts' = <<>>
  /\ submissions' = <<>>
  /\ submitErrors' = <<>>
  /\ operation' = Absent
  /\ reports' = <<>>
  /\ waits' = 0
  /\ statusQueries' = 0
  /\ queryErrors' = 0
  /\ extractions' = 0
  /\ fetches' = <<>>
  /\ fetchOutcomes' = <<>>
  /\ blob' = Absent
  /\ result' = NoResult
  /\ UNCHANGED envApiKey

\* ------------------------------------------------------------------------

Next ==
  \/ /\ \E p \in Prompts, a \in AspectRatios, r \in Resolutions, m \in ImageModels :
          CallImage(p, a, r, m)
     /\ UNCHANGED appVars
  \/ /\ \E reply \in ImageReplies : FlashReply(reply)
     /\ UNCHANGED appVars
  \/ /\ \E reply \in ImageReplies : ProReply(reply)
     /\ UNCHANGED appVars
  \/ /\ \E reply \in ImageReplies : FallbackReply(reply)
     /\ UNCHANGED appVars
  \/ /\ \E p \in Prompts, in \in VideoInputs : CallVideo(p, in[1], in[2])
     /\ UNCHANGED appVars
  \/ /\ \E e \in ServiceErrors : SubmitFastRejected(e)
     /\ UNCHANGED appVars
  \/ /\ \E op \in Operations : SubmitFastAccepted(op)
     /\ UNCHANGED appVars
  \/ /\ \E e \in ServiceErrors : SubmitStandardRejected(e)
     /\ UNCHANGED appVars
  \/ /\ \E op \in Operations : SubmitStandardAccepted(op)
     /\ UNCHANGED appVars
  \/ /\ TimerFires
     /\ UNCHANGED appVars
  \/ /\ \E e \in ServiceErrors : QueryRejected(e)
     /\ UNCHANGED appVars
  \/ /\ \E op \in Operations : QueryAnswered(op)
     /\ UNCHANGED appVars
  \/ /\ \E e \in ServiceErrors : FetchRejected(e)
     /\ UNCHANGED appVars
  \/ /\ \E ok \in BOOLEAN, body \in Blobs : FetchResponded(ok, body)
     /\ UNCHANGED appVars
  \/ /\ \E readOk \in BOOLEAN : ReaderEnds(readOk)
     /\ UNCHANGED appVars
  \/ /\ Settle
     /\ UNCHANGED appVars

Spec == Init /\ [][Next]_vars

\* ------------------------------------------------------------------------
\* The application shell: handlers and user actions of tab t.

\* No handler of the tab is between its getItem and its setItem.
AtRest(t) == tabs[t].pendingWrite.op = "none"

\* The page shows its controls once checkKey and loadGallery have run
\* (line 280); hasKey is true from then on, FALLBACK_API_KEY being set.
Interactive(t) == ~tabs[t].isCheckingKey /\ AtRest(t)

\* The step ran no gallery handler.
Quiet == lastOp' = NoEvent /\ UNCHANGED <<slot, now, ledger>>

\* seq without its i-th element.
Remove(seq, i) == SubSeq(seq, 1, i - 1) \o SubSeq(seq, i + 1, Len(seq))

\* The persisted collection: the list the slot holds, if it holds one.
Persisted(text) ==
  IF text.json = "array" THEN ParseAll(text.items) ELSE <<>>

\* --- loadGallery ---

\* Variant of LoadedGallery that never reads the slot.
LoadedGallery_KeepsCurrent(text, readOk, current) == current

\* The collection loadGallery leaves in savedMedia.
LoadedGallery(text, readOk, current) ==
  IF ~readOk THEN current
  ELSE IF text = SlotAbsent THEN <<>>
  ELSE LET parsed == JSONparse(text)
       IN IF parsed.kind = "list" THEN NormalizedAll(parsed.list)
          ELSE current

\* The event a load leaves in lastOp: it remembers the save it follows.
LoadEvent(t, readOk) ==
  [op |-> "load", tab |-> t, readOk |-> readOk,
   after |-> IF lastOp.op = "save" THEN <<lastOp>> ELSE <<>>]

\* The mount effect of lines 122-125: checkKey and loadGallery.
Mount(t) ==
  /\ tabs[t].isCheckingKey
  /\ \E readOk \in BOOLEAN :
       /\ tabs' = [tabs EXCEPT ![t] =
            [@ EXCEPT !.isCheckingKey = FALSE,
                      !.savedMedia = LoadedGallery(slot, readOk, @)]]
       /\ lastOp' = LoadEvent(t, readOk)
  /\ UNCHANGED <<slot, now, ledger>>

\* The page is loaded again: a new App is constructed and mounted; what
\* the old page awaited is gone.
Reload(t) ==
  /\ Interactive(t)
  /\ \E readOk \in BOOLEAN :
       /\ tabs' = [tabs EXCEPT ![t] =
            [InitialTab EXCEPT
               !.isCheckingKey = FALSE,
               !.savedMedia = LoadedGallery(slot, readOk, @)]]
       /\ lastOp' = LoadEvent(t, readOk)
  /\ UNCHANGED <<slot, now, ledger>>

\* --- the prompt and the options ---

SetPrompt(t, p) ==
  /\ Interactive(t)
  /\ tabs[t].prompt # p
  /\ tabs' = [tabs EXCEPT ![t].prompt = p]
  /\ Quiet

SetAspectRatio(t, a) ==
  /\ Interactive(t)
  /\ tabs[t].aspectRatio # a
  /\ tabs' = [tabs EXCEPT ![t].aspectRatio = a]
  /\ Quiet

SetResolution(t, r) ==
  /\ Interactive(t)
  /\ tabs[t].resolution # r
  /\ tabs' = [tabs EXCEPT ![t].resolution = r]
  /\ Quiet

SetModel(t, m) ==
  /\ Interactive(t)
  /\ tabs[t].model # m
  /\ tabs' = [tabs EXCEPT ![t].model = m]
  /\ Quiet

\* --- handleGenerate ---

\* Variant of GenerateDisabled that leaves isAnimating out.
GenerateDisabled_WhileLoading(t) ==
  tabs[t].isLoading \/ ~Truthy(Trim(tabs[t].prompt))

\* disabled={isLoading || isAnimating || !prompt.trim()}
GenerateDisabled(t) ==
  tabs[t].isLoading \/ tabs[t].isAnimating \/ ~Truthy(Trim(tabs[t].prompt))

\* Variant of handleGenerate that leaves the video of the previous image
\* on display.
handleGenerate_KeepsVideo(t) ==
  LET s == tabs[t]
  IN /\ IF ~Truthy(Trim(s.prompt))
        THEN tabs' = tabs
        ELSE tabs' = [tabs EXCEPT ![t] =
               [s EXCEPT
                  !.isLoading = TRUE,
                  !.error = Null,
                  !.generatedImage = Null,
                  !.calls = Append(@, [fn |-> "image",
                                       prompt |-> s.prompt,
                                       aspectRatio |-> s.aspectRatio,
                                       resolution |-> s.resolution,
                                       model |-> s.model])]]
     /\ Quiet

\* handleGenerate up to its await.
handleGenerate(t) ==
  LET s == tabs[t]
  IN /\ IF ~Truthy(Trim(s.prompt))
        THEN tabs' = tabs
        ELSE tabs' = [tabs EXCEPT ![t] =
               [s EXCEPT
                  !.isLoading = TRUE,
                  !.error = Null,
                  !.generatedImage = Null,
                  !.generatedVideo = Null,
                  !.calls = Append(@, [fn |-> "image",
                                       prompt |-> s.prompt,
                                       aspectRatio |-> s.aspectRatio,
                                       resolution |-> s.resolution,
                                       model |-> s.model])]]
     /\ Quiet

\* The Generate button; the dialog does not keep the keyboard from it.
ClickGenerate(t) ==
  /\ Interactive(t)
  /\ ~GenerateDisabled(t)
  /\ handleGenerate(t)

\* Variant of ImageCallSettles without the finally: a rejected call leaves
\* isLoading set.
ImageCallSettles_NoFinally(t, i, outcome) ==
  LET s == tabs[t]
  IN /\ AtRest(t)
     /\ i \in 1..Len(s.calls)
     /\ s.calls[i].fn = "image"
     /\ tabs' = [tabs EXCEPT ![t] =
          [s EXCEPT
             !.generatedImage =
               IF outcome.kind = "ok" THEN outcome.value ELSE @,
             !.error =
               IF outcome.kind = "ok" THEN @
               ELSE ImageErrorShown(outcome.error),
             !.isLoading = outcome.kind # "ok",
             !.calls = Remove(@, i),
             !.lastCall = [fn |-> "image", ok |-> outcome.kind = "ok"]]]
     /\ Quiet

\* handleGenerate from its await on: the i-th awaited call settles.
ImageCallSettles(t, i, outcome) ==
  LET s == tabs[t]
  IN /\ AtRest(t)
     /\ i \in 1..Len(s.calls)
     /\ s.calls[i].fn = "image"
     /\ tabs' = [tabs EXCEPT ![t] =
          [s EXCEPT
             !.generatedImage =
               IF outcome.kind = "ok" THEN outcome.value ELSE @,
             !.error =
               IF outcome.kind = "ok" THEN @
               ELSE ImageErrorShown(outcome.error),
             !.isLoading = FALSE,
             !.calls = Remove(@, i),
             !.lastCall = [fn |-> "image", ok |-> outcome.kind = "ok"]]]
     /\ Quiet

\* --- handleVideoGeneration ---

\* The action bar of line 483.
ActionBarShown(t) ==
  /\ IsSet(tabs[t].generatedImage) \/ IsSet(tabs[t].generatedVideo)
  /\ ~tabs[t].isLoading
  /\ ~tabs[t].isAnimating

\* The Animate Scene button (lines 487-489).
OpenVideoPrompt(t) ==
  /\ Interactive(t)
  /\ ActionBarShown(t)
  /\ IsSet(tabs[t].generatedImage)
  /\ ~IsSet(tabs[t].generatedVideo)
  /\ ~tabs[t].showVideoPrompt
  /\ tabs' = [tabs EXCEPT ![t].showVideoPrompt = TRUE]
  /\ Quiet

\* The close and Cancel buttons of the dialog (lines 606 and 638).
CloseVideoPrompt(t) ==
  /\ Interactive(t)
  /\ tabs[t].showVideoPrompt
  /\ tabs' = [tabs EXCEPT ![t].showVideoPrompt = FALSE]
  /\ Quiet

\* The textarea and the presets of the dialog (lines 615 and 626).
SetVideoPrompt(t, v) ==
  /\ Interactive(t)
  /\ tabs[t].showVideoPrompt
  /\ tabs[t].videoPrompt # v
  /\ tabs' = [tabs EXCEPT ![t].videoPrompt = v]
  /\ Quiet

\* handleVideoGeneration up to its await.
handleVideoGeneration(t) ==
  LET s == tabs[t]
  IN /\ IF ~IsSet(s.generatedImage)
        THEN tabs' = tabs
        ELSE tabs' = [tabs EXCEPT ![t] =
               [s EXCEPT
                  !.showVideoPrompt = FALSE,
                  !.isAnimating = TRUE,
                  !.error = Null,
                  !.generatedVideo = Null,
                  !.calls = Append(@, [fn |-> "video",
                                       prompt |-> FinalVideoPrompt(s.videoPrompt),
                                       image |-> s.generatedImage,
                                       aspectRatio |-> s.aspectRatio])]]
     /\ Quiet

\* The Generate Video button of the dialog (line 644).
ClickGenerateVideo(t) ==
  /\ Interactive(t)
  /\ tabs[t].showVideoPrompt
  /\ handleVideoGeneration(t)

\* handleVideoGeneration from its await on: the i-th awaited call settles.
VideoCallSettles(t, i, outcome) ==
  LET s == tabs[t]
  IN /\ AtRest(t)
     /\ i \in 1..Len(s.calls)
     /\ s.calls[i].fn = "video"
     /\ tabs' = [tabs EXCEPT ![t] =
          [s EXCEPT
             !.generatedVideo =
               IF outcome.kind = "ok" THEN outcome.value ELSE @,
             !.error =
               IF outcome.kind = "ok" THEN @
               ELSE VideoErrorShown(outcome.error),
             !.isAnimating = FALSE,
             !.calls = Remove(@, i),
             !.lastCall = [fn |-> "video", ok |-> outcome.kind = "ok",
                           image |-> s.calls[i].image]]]
     /\ Quiet

\* The close button over the video (line 442).
CloseVideo(t) ==
  /\ Interactive(t)
  /\ IsSet(tabs[t].generatedVideo)
  /\ tabs' = [tabs EXCEPT ![t].generatedVideo = Null]
  /\ Quiet

\* --- handleSaveToGallery ---

\* Variant of UrlToSave that falls back on the other kind of media.
UrlToSave_Either(s, type) ==
  IF type = "video" /\ IsSet(s.generatedVideo) THEN s.generatedVideo
  ELSE IF IsSet(s.generatedImage) THEN s.generatedImage
  ELSE s.generatedVideo

\* type === 'video' ? generatedVideo : generatedImage
UrlToSave(s, type) ==
  IF type = "video" THEN s.generatedVideo ELSE s.generatedImage

\* Variant of PromptToSave that takes the prompt field for every kind.
PromptToSave_FieldOnly(s, type) == s.prompt

\* type === 'video' ? (videoPrompt || prompt) : prompt
PromptToSave(s, type) ==
  IF type = "video"
  THEN (IF Truthy(s.videoPrompt) THEN s.videoPrompt ELSE s.prompt)
  ELSE s.prompt

\* Variant of SaveText that puts the new entry last.
SaveText_Appends(text, readOk, newMedia) ==
  IF ~readOk THEN [ok |-> FALSE]
  ELSE IF text = SlotAbsent
       THEN [ok |-> TRUE, text |-> JSONstringify(<<newMedia>>)]
       ELSE LET parsed == JSONparse(text)
            IN IF parsed.kind = "list"
               THEN [ok |-> TRUE,
                     text |-> JSONstringify(parsed.list \o <<newMedia>>)]
               ELSE [ok |-> FALSE]

\* Lines 237-243 up to the argument of setItem: the text to write, unless
\* getItem, JSON.parse or the spread of its result throws.
SaveText(text, readOk, newMedia) ==
  IF ~readOk THEN [ok |-> FALSE]
  ELSE IF text = SlotAbsent
       THEN [ok |-> TRUE, text |-> JSONstringify(<<newMedia>>)]
       ELSE LET parsed == JSONparse(text)
            IN IF parsed.kind = "list"
               THEN [ok |-> TRUE,
                     text |-> JSONstringify(<<newMedia>> \o parsed.list)]
               ELSE [ok |-> FALSE]

\* Variant of Stored that takes a throwing setItem for a write.
Stored_DespiteThrow(write, writeOk) == write.ok

\* setItem was reached and returned (line 243).
Stored(write, writeOk) == write.ok /\ writeOk

\* Variant of ClockReads with a clock that can be set back.
ClockReads_SetBack(t1, t2) == t1 \in 1..MaxClock /\ t2 \in 1..MaxClock

\* Date.now() does not go back: the readings t1 and t2 follow now.
ClockReads(t1, t2) == now <= t1 /\ t1 <= t2 /\ t2 <= MaxClock

\* handleSaveToGallery(type), Date.now() returning t1 and then t2.
handleSaveToGallery(t, type, t1, t2, readOk, writeOk) ==
  LET s == tabs[t]
      urlToSave == UrlToSave(s, type)
      newMedia == NewMedia(t1, t2, urlToSave, type, PromptToSave(s, type),
                           s.aspectRatio)
      write == SaveText(slot, readOk, newMedia)
      stored == Stored(write, writeOk)
  IN IF ~IsSet(urlToSave)
     THEN /\ lastOp' = [op |-> "save", tab |-> t, type |-> type,
                        skipped |-> TRUE]
          /\ UNCHANGED <<tabs, slot, now, ledger>>
     ELSE /\ ClockReads(t1, t2)
          /\ tabs' = [tabs EXCEPT ![t] =
               [s EXCEPT
                  !.savedMedia = <<newMedia>> \o @,
                  !.storageError = IF stored THEN Null ELSE MsgStorageFull]]
          /\ slot' = IF stored THEN write.text ELSE slot
          /\ now' = t2
          /\ lastOp' = [op |-> "save", tab |-> t, type |-> type,
                        skipped |-> FALSE, entry |-> newMedia,
                        readOk |-> readOk, writeOk |-> writeOk,
                        stored |-> stored]
          /\ UNCHANGED ledger

\* Variant of ClickSave that calls handleSaveToGallery() with its default
\* kind.
ClickSave_DefaultKind(t, t1, t2, readOk, writeOk) ==
  /\ Interactive(t)
  /\ ActionBarShown(t)
  /\ handleSaveToGallery(t, "image", t1, t2, readOk, writeOk)

\* The Save button of the action bar (line 498).
ClickSave(t, t1, t2, readOk, writeOk) ==
  /\ Interactive(t)
  /\ ActionBarShown(t)
  /\ handleSaveToGallery(t, IF IsSet(tabs[t].generatedVideo)
                            THEN "video" ELSE "image",
                         t1, t2, readOk, writeOk)

\* --- handleDeleteMedia ---

\* Number of entries of list that have the id.
CountId(list, id) == Cardinality({i \in 1..Len(list) : list[i].id = id})

\* Variant of DeleteText that writes an empty list.
DeleteText_Clears(text, readOk, id) ==
  IF ~readOk \/ text = SlotAbsent THEN [ok |-> FALSE]
  ELSE [ok |-> TRUE, text |-> JSONstringify(<<>>)]

\* Lines 258-262 up to the argument of setItem: the text to write, unless
\* the slot is absent or reading it throws.
DeleteText(text, readOk, id) ==
  IF ~readOk \/ text = SlotAbsent THEN [ok |-> FALSE]
  ELSE LET parsed == JSONparse(text)
       IN IF parsed.kind = "list"
          THEN [ok |-> TRUE, text |-> JSONstringify(WithoutId(parsed.list, id))]
          ELSE [ok |-> FALSE]

\* handleDeleteMedia(id); the gallery has a delete button for each entry
\* it shows (line 579). The event counts the entries with that id shown
\* by the tab and kept in the slot before the call.
handleDeleteMedia(t, id, readOk, writeOk) ==
  LET write == DeleteText(slot, readOk, id)
  IN /\ Interactive(t)
     /\ tabs' = [tabs EXCEPT ![t].savedMedia = WithoutId(@, id)]
     /\ slot' = IF write.ok /\ writeOk THEN write.text ELSE slot
     /\ lastOp' = [op |-> "delete", tab |-> t, id |-> id,
                   readOk |-> readOk, writeOk |-> writeOk,
                   shown |-> CountId(tabs[t].savedMedia, id),
                   kept |-> CountId(Persisted(slot), id)]
     /\ UNCHANGED <<now, ledger>>

\* The ids handleDeleteMedia is called with.
Ids == {NumberToString(n) : n \in 0..MaxClock}

\* Number of entries of the list the slot holds.
SlotLength(text) == IF text.json = "array" THEN Len(text.items) ELSE 0

\* Both collections of tab t hold fewer than n entries.
Room(t, n) == Len(tabs[t].savedMedia) < n /\ SlotLength(slot) < n

\* ------------------------------------------------------------------------
\* One tab.

clientVars == <<envApiKey, pc, call, requests, replies, attempts, submissions,
                submitErrors, operation, reports, waits, statusQueries,
                queryErrors, extractions, fetches, fetchOutcomes, blob,
                result>>

InitApp ==
  /\ envApiKey = EmptyStr
  /\ ClientIdle
  /\ tabs = [t \in TabIds |-> InitialTab]
  /\ slot \in InitialSlots
  /\ now = 1
  /\ lastOp = NoEvent
  /\ ledger = EmptyLedger

InitTabs ==
  /\ envApiKey = EmptyStr
  /\ ClientIdle
  /\ tabs = [t \in TabIds |-> InitialTab]
  /\ slot \in {SlotAbsent, JSONstringify(<<LegacyEntry>>)}
  /\ now = 1
  /\ lastOp = NoEvent
  /\ ledger = EmptyLedger

\* Whether getItem and setItem work: both, or one of them throws.
StorageFaults == {<<TRUE, TRUE>>, <<FALSE, TRUE>>, <<TRUE, FALSE>>}

\* A session of one tab: generation, the dialog, the options, the gallery.
NextApp ==
  \/ /\ Mount(1)
     /\ UNCHANGED clientVars
  \/ /\ Reload(1)
     /\ UNCHANGED clientVars
  \/ /\ \E p \in TypedPrompts : SetPrompt(1, p)
     /\ UNCHANGED clientVars
  \/ /\ \E a \in SelectableAspectRatios : SetAspectRatio(1, a)
     /\ UNCHANGED clientVars
  \/ /\ ClickGenerate(1)
     /\ UNCHANGED clientVars
  \/ /\ \E i \in 1..2, o \in ImageCallOutcomes : ImageCallSettles(1, i, o)
     /\ UNCHANGED clientVars
  \/ /\ OpenVideoPrompt(1)
     /\ UNCHANGED clientVars
  \/ /\ \E v \in TypedVideoPrompts : SetVideoPrompt(1, v)
     /\ UNCHANGED clientVars
  \/ /\ CloseVideoPrompt(1)
     /\ UNCHANGED clientVars
  \/ /\ ClickGenerateVideo(1)
     /\ UNCHANGED clientVars
  \/ /\ \E i \in 1..2, o \in VideoCallOutcomes : VideoCallSettles(1, i, o)
     /\ UNCHANGED clientVars
  \/ /\ CloseVideo(1)
     /\ UNCHANGED clientVars
  \/ /\ Room(1, MaxKept)
     /\ \E f \in StorageFaults : ClickSave(1, now, now, f[1], f[2])
     /\ UNCHANGED clientVars
  \/ /\ \E id \in Ids, f \in StorageFaults :
          handleDeleteMedia(1, id, f[1], f[2])
     /\ UNCHANGED clientVars

SpecApp == InitTabs /\ [][NextApp]_vars

\* The same session with the gallery left aside, and with the service
\* answering every call it is sent: a call that is awaited settles.
NextSession ==
  \/ /\ Mount(1)
     /\ UNCHANGED clientVars
  \/ /\ Reload(1)
     /\ UNCHANGED clientVars
  \/ /\ \E p \in TypedPrompts : SetPrompt(1, p)
     /\ UNCHANGED clientVars
  \/ /\ \E a \in SelectableAspectRatios : SetAspectRatio(1, a)
     /\ UNCHANGED clientVars
  \/ /\ ClickGenerate(1)
     /\ UNCHANGED clientVars
  \/ /\ \E i \in 1..2, o \in ImageCallOutcomes : ImageCallSettles(1, i, o)
     /\ UNCHANGED clientVars
  \/ /\ OpenVideoPrompt(1)
     /\ UNCHANGED clientVars
  \/ /\ CloseVideoPrompt(1)
     /\ UNCHANGED clientVars
  \/ /\ \E v \in TypedVideoPrompts : SetVideoPrompt(1, v)
     /\ UNCHANGED clientVars
  \/ /\ ClickGenerateVideo(1)
     /\ UNCHANGED clientVars
  \/ /\ \E i \in 1..2, o \in VideoCallOutcomes : VideoCallSettles(1, i, o)
     /\ UNCHANGED clientVars
  \/ /\ CloseVideo(1)
     /\ UNCHANGED clientVars
  \/ /\ Room(1, MaxKept)
     /\ ClickSave(1, now, now, TRUE, TRUE)
     /\ UNCHANGED clientVars
  \/ /\ \E i \in 1..Len(tabs[1].savedMedia) :
          handleDeleteMedia(1, tabs[1].savedMedia[i].id, TRUE, TRUE)
     /\ UNCHANGED clientVars

ServiceAnswers ==
  /\ WF_vars(\E i \in 1..2, o \in ImageCallOutcomes :
               ImageCallSettles(1, i, o) /\ UNCHANGED clientVars)
  /\ WF_vars(\E i \in 1..2, o \in VideoCallOutcomes :
               VideoCallSettles(1, i, o) /\ UNCHANGED clientVars)

SpecSession == InitTabs /\ [][NextSession]_vars /\ ServiceAnswers

\* The gallery of one tab: loads, saves of a generated image, deletes.
NextGallery ==
  \/ /\ Mount(1)
     /\ UNCHANGED clientVars
  \/ /\ Reload(1)
     /\ UNCHANGED clientVars
  \/ /\ \E m \in SelectableModels : SetModel(1, m)
     /\ UNCHANGED clientVars
  \/ /\ ClickGenerate(1)
     /\ UNCHANGED clientVars
  \/ /\ ImageCallSettles(1, 1, Ok(DataUri(MimeJpeg, PayloadB)))
     /\ UNCHANGED clientVars
  \/ /\ Room(1, MaxEntries)
     /\ \E t1, t2 \in 1..MaxClock, f \in StorageFaults :
          ClickSave(1, t1, t2, f[1], f[2])
     /\ UNCHANGED clientVars
  \/ /\ \E id \in Ids, f \in StorageFaults :
          handleDeleteMedia(1, id, f[1], f[2])
     /\ UNCHANGED clientVars

SpecGallery == InitApp /\ [][NextGallery]_vars

\* ------------------------------------------------------------------------
\* Two tabs side by side. localStorage is shared by the tabs of an origin
\* without any lock, so another tab can run between the getItem and the
\* setItem of a handler; the handlers are split there.

\* What a write adds to the ledger: the slot was written by someone else
\* since this handler read it.
Overlaps(t) == slot # tabs[t].pendingWrite.read

\* handleSaveToGallery up to its setItem.
SaveReads(t, t1, t2, readOk) ==
  LET s == tabs[t]
      type == IF IsSet(s.generatedVideo) THEN "video" ELSE "image"
      urlToSave == UrlToSave(s, type)
      newMedia == NewMedia(t1, t2, urlToSave, type, PromptToSave(s, type),
                           s.aspectRatio)
      write == SaveText(slot, readOk, newMedia)
  IN /\ Interactive(t)
     /\ ActionBarShown(t)
     /\ IsSet(urlToSave)
     /\ ClockReads(t1, t2)
     /\ tabs' = [tabs EXCEPT ![t] =
          [s EXCEPT
             !.savedMedia = <<newMedia>> \o @,
             !.storageError = IF write.ok THEN @ ELSE MsgStorageFull,
             !.pendingWrite =
               IF write.ok
               THEN [op |-> "save", text |-> write.text, entry |-> newMedia,
                     read |-> slot]
               ELSE NoWrite]]
     /\ now' = t2
     /\ lastOp' = NoEvent
     /\ UNCHANGED <<slot, ledger>>

\* The setItem of handleSaveToGallery and what follows it.
SaveWrites(t, writeOk) ==
  LET s == tabs[t]
      w == s.pendingWrite
  IN /\ w.op = "save"
     /\ slot' = IF writeOk THEN w.text ELSE slot
     /\ tabs' = [tabs EXCEPT ![t] =
          [s EXCEPT
             !.storageError = IF writeOk THEN Null ELSE MsgStorageFull,
             !.pendingWrite = NoWrite]]
     /\ ledger' = [ledger EXCEPT
          !.stored = IF writeOk THEN @ \cup {w.entry} ELSE @,
          !.overlapped = @ \/ (writeOk /\ Overlaps(t))]
     /\ lastOp' = [op |-> "save", tab |-> t, type |-> w.entry.type,
                   skipped |-> FALSE, entry |-> w.entry, readOk |-> TRUE,
                   writeOk |-> writeOk, stored |-> writeOk]
     /\ UNCHANGED now

\* handleDeleteMedia up to its setItem.
DeleteReads(t, id, readOk) ==
  LET s == tabs[t]
      write == DeleteText(slot, readOk, id)
  IN /\ Interactive(t)
     /\ tabs' = [tabs EXCEPT ![t] =
          [s EXCEPT
             !.savedMedia = WithoutId(@, id),
             !.pendingWrite =
               IF write.ok
               THEN [op |-> "delete", text |-> write.text, id |-> id,
                     read |-> slot]
               ELSE NoWrite]]
     /\ ledger' = [ledger EXCEPT !.deleted = @ \cup {id}]
     /\ lastOp' = NoEvent
     /\ UNCHANGED <<slot, now>>

\* The setItem of handleDeleteMedia.
DeleteWrites(t, writeOk) ==
  LET s == tabs[t]
      w == s.pendingWrite
  IN /\ w.op = "delete"
     /\ slot' = IF writeOk THEN w.text ELSE slot
     /\ tabs' = [tabs EXCEPT ![t].pendingWrite = NoWrite]
     /\ ledger' = [ledger EXCEPT
          !.overlapped = @ \/ (writeOk /\ Overlaps(t))]
     /\ lastOp' = NoEvent
     /\ UNCHANGED now

NextTabs ==
  \/ /\ \E t \in TabIds : Mount(t)
     /\ UNCHANGED clientVars
  \/ /\ \E r \in SelectableResolutions : SetResolution(1, r)
     /\ UNCHANGED clientVars
  \/ /\ \E t \in TabIds : ClickGenerate(t)
     /\ UNCHANGED clientVars
  \/ /\ \E t \in TabIds : ImageCallSettles(t, 1, Ok(DataUri(MimeJpeg, PayloadB)))
     /\ UNCHANGED clientVars
  \/ /\ \E t \in TabIds, t1 \in 1..MaxClock :
          Room(t, MaxKept) /\ SaveReads(t, t1, t1, TRUE)
     /\ UNCHANGED clientVars
  \/ /\ \E t \in TabIds, writeOk \in BOOLEAN : SaveWrites(t, writeOk)
     /\ UNCHANGED clientVars
  \/ /\ \E t \in TabIds : \E i \in 1..Len(tabs[t].savedMedia) :
          DeleteReads(t, tabs[t].savedMedia[i].id, TRUE)
     /\ UNCHANGED clientVars
  \/ /\ \E t \in TabIds, writeOk \in BOOLEAN : DeleteWrites(t, writeOk)
     /\ UNCHANGED clientVars

SpecTabs == InitTabs /\ [][NextTabs]_vars


\* ------------------------------------------------------------------------
\* Properties of generateImageFromPrompt.

\* The four markers of the permission-denied / not-found test.
FallbackMarkers ==
  {Marker403, MarkerPermissionDenied, Marker404, MarkerNotFound}

\* The text of error e carries one of the markers.
CarriesMarker(e) == \E m \in FallbackMarkers : Includes(ErrToString(e), m)

\* The call in progress took the default (quality) path.
QualityPath == call.fn = "image" /\ call.model # FlashImageModel

\* The first attempt of the call failed with error text carrying a marker.
FirstAttemptDenied ==
  /\ Len(attempts) >= 1
  /\ attempts[1].kind = "err"
  /\ CarriesMarker(attempts[1].error)

\* The first attempt of the call failed with error text carrying no marker.
FirstAttemptOtherError ==
  /\ Len(attempts) >= 1
  /\ attempts[1].kind = "err"
  /\ ~CarriesMarker(attempts[1].error)

\* C1: on the quality path, a first attempt that fails with a
\* permission-denied / not-found marker in its error text is followed by
\* exactly one further request, to the flash model with the same prompt and
\* aspect ratio and no image size, and the call ends with the outcome of
\* that fallback (its image or its error).
C1_FallbackOnce ==
  (QualityPath /\ FirstAttemptDenied) =>
    /\ Len(requests) = 2
    /\ requests[1].model = ProImageModel
    /\ requests[2] = [model |-> FlashImageModel, prompt |-> call.prompt,
                      aspectRatio |-> call.aspectRatio]
    /\ IF pc \in Settled
       THEN Len(attempts) = 2 /\ result = attempts[2]
       ELSE pc = "fallback" /\ Len(attempts) = 1 /\ result = NoResult

\* A quality call whose pro attempt was rejected with "404" and whose
\* fallback returned an image.
C1_Witness ==
  /\ QualityPath
  /\ pc = "returned"
  /\ Len(attempts) = 2
  /\ attempts[1] = Thrown(Err(NameApiError, MsgStatus404))
  /\ result.kind = "ok"

\* C2: on the quality path, a first attempt that fails with no marker in
\* its error text (extraction failures included) ends the call with that
\* error, and no request other than the one to the pro model is made.
C2_NoFallbackOnOtherErrors ==
  (QualityPath /\ FirstAttemptOtherError) =>
    /\ Len(requests) = 1
    /\ requests[1].model = ProImageModel
    /\ Len(attempts) = 1
    /\ pc = "failed"
    /\ result = Thrown(attempts[1].error)

\* A quality call that ended with the 'no image data' extraction failure of
\* its only request.
C2_Witness ==
  /\ QualityPath
  /\ pc = "failed"
  /\ Len(requests) = 1
  /\ result = Thrown(Err(NameError, MsgNoImageData))

\* C3: a call with the flash model selected sends exactly one request, to
\* the flash model, with the aspect ratio and without an image size, and
\* ends with the outcome of that request (image, rejection or extraction
\* failure).
C3_FlashPathSingleRequest ==
  (call.fn = "image" /\ call.model = FlashImageModel) =>
    /\ Len(requests) = 1
    /\ requests[1].model = FlashImageModel
    /\ requests[1].prompt = call.prompt
    /\ requests[1].aspectRatio = call.aspectRatio
    /\ "imageSize" \notin DOMAIN requests[1]
    /\ IF pc \in Settled
       THEN Len(attempts) = 1 /\ result = attempts[1]
       ELSE pc = "flash" /\ attempts = <<>> /\ result = NoResult

\* A flash call that failed with the rejection of its only request, an
\* error that would trigger the fallback on the quality path.
C3_Witness ==
  /\ call.fn = "image"
  /\ call.model = FlashImageModel
  /\ pc = "failed"
  /\ Len(requests) = 1
  /\ result = Thrown(Err(NameApiError, MsgStatus403))

\* C4: a call sends at most two generation requests and at most two job
\* submissions; a second request is flash after pro, a second submission is
\* the standard variant after the fast one.
C4_AtMostOneRetry ==
  /\ Len(requests) <= 2
  /\ Len(requests) = 2 =>
       requests[1].model = ProImageModel /\ requests[2].model = FlashImageModel
  /\ Len(submissions) <= 2
  /\ Len(submissions) >= 1 => submissions[1].model = VeoFastModel
  /\ Len(submissions) = 2 => submissions[2].model = VeoStandardModel

\* A video call whose two submissions were both rejected as not found.
C4_Witness ==
  /\ call.fn = "video"
  /\ pc = "failed"
  /\ Len(submissions) = 2
  /\ Len(submitErrors) = 2
  /\ \A i \in 1..2 : Includes(ErrToString(submitErrors[i]), MarkerNotFound)

\* ------------------------------------------------------------------------
\* Properties of generateVideoFromImage.

\* The text of error e carries a not-found marker.
CarriesNotFound(e) ==
  \E m \in {Marker404, MarkerNotFound} : Includes(ErrToString(e), m)

\* C5: a first submission rejected with a not-found marker is followed by
\* exactly one resubmission, to the standard variant with the same prompt,
\* image bytes, mime type and video configuration, and a rejection of the
\* resubmission fails the call; a first submission rejected with any other
\* error fails the call with that error, with no resubmission and no status
\* query.
C5_ResubmitOnNotFoundOnly ==
  (call.fn = "video" /\ Len(submitErrors) >= 1) =>
    IF CarriesNotFound(submitErrors[1])
    THEN /\ Len(submissions) = 2
         /\ submissions[2] =
              [model |-> VeoStandardModel, prompt |-> call.prompt,
               image |-> submissions[1].image, config |-> submissions[1].config]
         /\ submissions[1].prompt = call.prompt
         /\ Len(submitErrors) = 2 =>
              pc = "failed" /\ result = Thrown(submitErrors[2])
    ELSE /\ Len(submissions) = 1
         /\ Len(submitErrors) = 1
         /\ pc = "failed"
         /\ result = Thrown(submitErrors[1])
         /\ statusQueries = 0
         /\ reports = <<>>

\* A video call whose fast submission was rejected as not found and whose
\* resubmission was accepted and led to a returned video.
C5_Witness ==
  /\ call.fn = "video"
  /\ pc = "returned"
  /\ Len(submitErrors) = 1
  /\ CarriesNotFound(submitErrors[1])
  /\ Len(submissions) = 2

\* The call has received a job handle and the latest one is not done.
LatestNotDone ==
  /\ call.fn = "video"
  /\ Len(reports) >= 1
  /\ reports[Len(reports)] # "true"

\* The call has received a job handle and the latest one is done.
JobDone ==
  /\ call.fn = "video"
  /\ Len(reports) >= 1
  /\ reports[Len(reports)] = "true"

\* The call has left the polling loop without a rejected status query.
PollingLeft ==
  /\ call.fn = "video"
  /\ Len(reports) >= 1
  /\ pc \notin {"waiting", "querying"}
  /\ queryErrors = 0

\* The report carries a done field.
HasDoneField(r) == r # "undefined"

\* The reports of the job handles that answered status queries.
QueryReports == SubSeq(reports, 2, Len(reports))

\* C6 as stated: job handles reporting done=false exactly twice and then
\* done=true make 3 status queries and one success extraction.
C6_ThreeQueriesAsStated ==
  (PollingLeft /\ SelectSeq(reports, HasDoneField) = <<"false", "false", "true">>)
    => /\ statusQueries = 3
       /\ OpError(operation) = Absent => extractions = 1

\* C6, amended: every job handle that is not done is followed by one status
\* query, so the number of status queries is the number of handles received
\* after the submission's.  Status queries answering done=false twice and
\* then done=true are exactly 3 queries; when the submission's handle is the
\* first of the two done=false reports there are exactly 2.  A done handle
\* without error payload is followed by exactly one extraction.
C6_QueriesFollowNotDoneReports ==
  PollingLeft =>
    /\ reports[Len(reports)] = "true"
    /\ \A i \in 1..(Len(reports) - 1) : reports[i] # "true"
    /\ statusQueries = Len(reports) - 1
    /\ reports = <<"false", "false", "true">> => statusQueries = 2
    /\ QueryReports = <<"false", "false", "true">> => statusQueries = 3
    /\ extractions = IF OpError(operation) = Absent THEN 1 ELSE 0

\* A call whose status queries answered done=false, done=false, done=true
\* and which went on to extract the video location.
C6_Witness ==
  /\ PollingLeft
  /\ QueryReports = <<"false", "false", "true">>
  /\ statusQueries = 3
  /\ extractions = 1

\* C7 as stated: while the latest job report is not done the call neither
\* extracts, fetches, returns nor fails.
C7_NeverFailsWhilePolling ==
  LatestNotDone =>
    /\ pc \in {"waiting", "querying"}
    /\ extractions = 0
    /\ fetches = <<>>
    /\ result = NoResult

\* A job handle that is not done, as a status query can return it.
StillRunning == [name |-> "op", done |-> FALSE]

\* C7, amended: while the latest job report is not done the call neither
\* extracts, fetches nor returns, and it fails only by the rejection of a
\* status query; the loop is left only by a done report or such a
\* rejection, and at every number of waits (below the bound of this model)
\* the timer and a further not-done answer keep it polling.
C7_PollsUntilDoneOrQueryFails ==
  /\ [](LatestNotDone =>
          /\ extractions = 0
          /\ fetches = <<>>
          /\ blob = Absent
          /\ pc \in {"waiting", "querying", "failed"}
          /\ pc = "failed" =>
               /\ queryErrors = 1
               /\ result.kind = "err"
               /\ result.error \in ServiceErrors)
  /\ [][(LatestNotDone /\ pc \in {"waiting", "querying"}) =>
          \/ pc' \in {"waiting", "querying"}
          \/ reports'[Len(reports')] = "true"
          \/ pc' = "failed" /\ queryErrors' = queryErrors + 1]_vars
  /\ [](pc = "waiting" => ENABLED TimerFires)
  /\ []((pc = "querying" /\ waits < MaxPolls) =>
          ENABLED QueryAnswered(StillRunning))

\* A call still waiting for the answer to its third status query, no job
\* handle having been done so far.
C7_Witness ==
  /\ LatestNotDone
  /\ pc = "querying"
  /\ statusQueries = 3
  /\ \A i \in 1..Len(reports) : reports[i] # "true"

\* The done job handle carries a non-empty location of a first video.
HasVideoLocation ==
  /\ "response" \in DOMAIN operation
  /\ Len(operation.response.generatedVideos) >= 1
  /\ "uri" \in DOMAIN operation.response.generatedVideos[1].video
  /\ operation.response.generatedVideos[1].video.uri # EmptyStr

\* C8: no fetch before the job is done; once it is done, an error payload
\* fails the call with its message and no fetch; otherwise a missing video
\* location fails the call with the 'no video' error and no fetch;
\* otherwise exactly one fetch of that location (with the key appended) is
\* made, a rejected or unsuccessful fetch fails the call, and a data URI is
\* returned only after a successful fetch.
C8_CompletionOrder ==
  /\ (call.fn = "video" /\ ~JobDone) => fetches = <<>> /\ fetchOutcomes = <<>>
  /\ call.fn # "video" => fetches = <<>>
  /\ JobDone =>
       IF "error" \in DOMAIN operation
       THEN /\ pc = "failed"
            /\ result = Thrown(Err(NameError, MsgVideoFailedPrefix
                                               \o operation.error.message))
            /\ fetches = <<>>
       ELSE IF ~HasVideoLocation
       THEN /\ pc = "failed"
            /\ result = Thrown(Err(NameError, MsgNoVideoUri))
            /\ fetches = <<>>
       ELSE /\ fetches = <<operation.response.generatedVideos[1].video.uri
                           \o KeyParam \o apiKey>>
            /\ CASE fetchOutcomes = <<>> -> pc = "fetching" /\ result = NoResult
                 [] fetchOutcomes = <<"rejected">> ->
                      /\ pc = "failed"
                      /\ result.error \in ServiceErrors
                 [] fetchOutcomes = <<"notOk">> ->
                      /\ pc = "failed"
                      /\ result = Thrown(Err(NameError, MsgDownloadFailed))
                 [] fetchOutcomes = <<"ok">> ->
                      /\ pc \in {"reading", "returned", "failed"}
                      /\ pc = "returned" =>
                           /\ result.kind = "ok"
                           /\ OccursAt(result.value, DataColon, 1)
                 [] OTHER -> FALSE
  /\ (call.fn = "video" /\ pc = "returned") => fetchOutcomes = <<"ok">>

\* A video call that returned a data URI after one successful fetch.
C8_Witness ==
  /\ JobDone
  /\ pc = "returned"
  /\ Len(fetches) = 1
  /\ fetchOutcomes = <<"ok">>

\* C9: every submission (first attempt and resubmission) carries "9:16"
\* when the input aspect ratio is "9:16" and "16:9" for every other input.
C9_VeoAspectRatio ==
  call.fn = "video" =>
    \A i \in 1..Len(submissions) :
      /\ call.aspectRatio = "9:16" => submissions[i].config.aspectRatio = "9:16"
      /\ call.aspectRatio # "9:16" => submissions[i].config.aspectRatio = "16:9"
      /\ call.aspectRatio \in {"16:9", "", "4:3"} =>
           submissions[i].config.aspectRatio = "16:9"

\* A call with aspect ratio "4:3" that was submitted twice.
C9_Witness ==
  /\ call.fn = "video"
  /\ call.aspectRatio = "4:3"
  /\ Len(submissions) = 2

\* C10: for a source image data:<image mime type>;base64,<payload> the
\* submitted image bytes are <payload> and the submitted mime type is the
\* declared one; without a declared mime type the submitted mime type is
\* image/png.
C10_PrefixStripped ==
  \A m \in SourceMimes, p \in {PayloadA, PayloadB} :
    (call.fn = "video" /\ call.imageBase64 = DataUri(m, p)) =>
      \A i \in 1..Len(submissions) :
        IF m = EmptyStr
        THEN submissions[i].image.mimeType = MimePng
        ELSE /\ submissions[i].image.imageBytes = p
             /\ submissions[i].image.mimeType = m

\* ------------------------------------------------------------------------
\* Properties of extractImage.

\* The parts of the first candidate of response r (none when the candidate
\* has no content or the content no parts).
FirstCandidateParts(r) ==
  LET c == r.candidates[1]
  IN IF "content" \in DOMAIN c /\ "parts" \in DOMAIN c.content
     THEN c.content.parts
     ELSE <<>>

\* Part p carries non-empty inline data.
CarriesImage(p) ==
  /\ "inlineData" \in DOMAIN p
  /\ "data" \in DOMAIN p.inlineData
  /\ p.inlineData.data # EmptyStr

\* The mime type part p declares, image/png when it declares none.
DeclaredMime(p) ==
  IF "mimeType" \in DOMAIN p.inlineData /\ p.inlineData.mimeType # EmptyStr
  THEN p.inlineData.mimeType
  ELSE MimePng

\* What C11 says the extraction from response r yields.
ExpectedExtraction(r) ==
  IF r = Absent \/ "candidates" \notin DOMAIN r \/ r.candidates = <<>>
  THEN Thrown(Err(NameError, MsgNoCandidates))
  ELSE LET parts == FirstCandidateParts(r)
           carriers == {k \in 1..Len(parts) : CarriesImage(parts[k])}
       IN IF carriers = {}
          THEN Thrown(Err(NameError, MsgNoImageData))
          ELSE LET first == CHOOSE k \in carriers : \A j \in carriers : k <= j
               IN Ok(DataColon \o DeclaredMime(parts[first]) \o Base64Comma
                     \o parts[first].inlineData.data)

\* s is data:<mime>;base64,<payload> with a non-empty payload.
IsDataUriWithPayload(s) ==
  /\ OccursAt(s, DataColon, 1)
  /\ \E k \in (Len(DataColon) + 1)..Len(s) :
       OccursAt(s, Base64Comma, k) /\ k + Len(Base64Comma) <= Len(s)

\* C11: the outcome of every answered attempt is the data URI of the first
\* part of the first candidate that carries non-empty inline data (declared
\* mime type, image/png when absent), the 'no candidates' error when the
\* response has no candidate, the 'no image data' error when no part of the
\* first candidate carries inline data; every image the call returns is a
\* data URI with a non-empty payload.
C11_ExtractionPolicy ==
  /\ Len(attempts) = Len(replies)
  /\ \A i \in 1..Len(replies) :
       replies[i].kind = "response" =>
         attempts[i] = ExpectedExtraction(replies[i].response)
  /\ (call.fn = "image" /\ pc = "returned") =>
       result.kind = "ok" /\ IsDataUriWithPayload(result.value)

\* A call that returned the image of the second part, the first part
\* carrying empty inline data.
C11_Witness ==
  /\ call.fn = "image"
  /\ pc = "returned"
  /\ Len(replies) = 1
  /\ replies[1].kind = "response"
  /\ replies[1].response # Absent
  /\ Len(FirstCandidateParts(replies[1].response)) = 3
  /\ result = Ok(DataUri(MimeJpeg, PayloadA))

\* ------------------------------------------------------------------------
\* Properties of the gallery (loadGallery, handleSaveToGallery,
\* handleDeleteMedia), for the tab that ran the handler.

\* The step ran handleSaveToGallery and it built an entry.
SaveStep == lastOp'.op = "save" /\ ~lastOp'.skipped

\* The step ran loadGallery.
LoadStep == lastOp'.op = "load"

\* The step ran handleDeleteMedia.
DeleteStep == lastOp'.op = "delete"

\* The collection the tab of the latest handler showed before and shows
\* after the step.
ShownBefore == tabs[lastOp'.tab].savedMedia
ShownAfter == tabs'[lastOp'.tab].savedMedia

\* The entries of list whose id is not id, in their order.
Others(list, id) == SelectSeq(list, LAMBDA e : e.id # id)

\* C12: when handleSaveToGallery has stored an entry and loadGallery then
\* reads the store, the loaded collection has that entry first, with the
\* same id, kind and url.
C12_SaveLoadRoundTrip ==
  [][(/\ LoadStep
      /\ lastOp'.readOk
      /\ lastOp'.after # <<>>
      /\ ~lastOp'.after[1].skipped
      /\ lastOp'.after[1].stored)
     => /\ ShownAfter # <<>>
        /\ ShownAfter[1].id = lastOp'.after[1].entry.id
        /\ ShownAfter[1].type = lastOp'.after[1].entry.type
        /\ ShownAfter[1].url = lastOp'.after[1].entry.url]_vars

\* A load that followed a stored save into a slot that held two entries.
C12_Witness ==
  /\ lastOp.op = "load"
  /\ lastOp.readOk
  /\ lastOp.after # <<>>
  /\ ~lastOp.after[1].skipped
  /\ lastOp.after[1].stored
  /\ Len(tabs[1].savedMedia) = 3

\* C13: a save puts the new entry in front of the in-memory collection and,
\* when it reaches the write, in front of the persisted collection as read
\* in that step, and writes that whole list; the entries present before
\* follow in their order, none removed.
C13_SavePrepends ==
  [][SaveStep
     => /\ ShownAfter = <<lastOp'.entry>> \o ShownBefore
        /\ lastOp'.stored
             => /\ Persisted(slot') = <<lastOp'.entry>> \o Persisted(slot)
                /\ slot'.json = "array"
                /\ Len(slot'.items) = Len(Persisted(slot)) + 1]_vars

\* A stored save on top of two entries, shown and persisted.
C13_Witness ==
  /\ lastOp.op = "save"
  /\ ~lastOp.skipped
  /\ lastOp.stored
  /\ Len(tabs[1].savedMedia) = 3
  /\ Len(Persisted(slot)) = 3
  /\ tabs[1].savedMedia[2].id # tabs[1].savedMedia[3].id

\* C14: when getItem or setItem throws during a save, the save still
\* completes: the new entry is in front of the in-memory collection, the
\* slot is as before, and storageError is non-empty.
C14_SaveSurvivesStorageFailure ==
  [][(SaveStep /\ (~lastOp'.readOk \/ ~lastOp'.writeOk))
     => /\ ShownAfter = <<lastOp'.entry>> \o ShownBefore
        /\ slot' = slot
        /\ IsSet(tabs'[lastOp'.tab].storageError)]_vars

\* A save whose setItem threw, on a slot holding a list.
C14_Witness ==
  /\ lastOp.op = "save"
  /\ ~lastOp.skipped
  /\ lastOp.readOk
  /\ ~lastOp.writeOk
  /\ tabs[1].savedMedia # <<>>
  /\ tabs[1].savedMedia[1] = lastOp.entry
  /\ Len(Persisted(slot)) = 2
  /\ IsSet(tabs[1].storageError)

\* Entry m is stored entry o with kind 'image' when o has no kind, and is
\* o otherwise.
LoadedAs(m, o) ==
  /\ DOMAIN m = DOMAIN o \cup {"type"}
  /\ m.type = IF "type" \in DOMAIN o THEN o.type ELSE "image"
  /\ \A k \in DOMAIN o \ {"type"} : m[k] = o[k]

\* C15: loadGallery leaves, when the slot holds a parseable list, that
\* list in its order, each entry without a kind given kind 'image' and
\* nothing else changed; when the slot is absent or does not parse, an
\* empty collection, and no error is shown.
C15_LoadNormalizes ==
  [][LoadStep
     => /\ (lastOp'.readOk /\ slot.json = "array")
             => /\ Len(ShownAfter) = Len(Persisted(slot))
                /\ \A i \in 1..Len(ShownAfter) :
                     LoadedAs(ShownAfter[i], Persisted(slot)[i])
        /\ slot.json # "array" => ShownAfter = <<>>
        /\ tabs'[lastOp'.tab].error = Null
        /\ tabs'[lastOp'.tab].storageError = Null]_vars

\* A load of a video followed by an entry stored without a kind.
C15_Witness ==
  /\ lastOp.op = "load"
  /\ lastOp.readOk
  /\ slot.json = "array"
  /\ Len(slot.items) = 2
  /\ "type" \notin DOMAIN slot.items[2]
  /\ Len(tabs[1].savedMedia) = 2
  /\ tabs[1].savedMedia[1].type = "video"
  /\ tabs[1].savedMedia[2].type = "image"

\* C16: deleting an id that no entry has, shown or persisted, leaves both
\* collections with the same entries in the same order.
C16_DeleteUnknownId ==
  [][(DeleteStep /\ lastOp'.shown = 0 /\ lastOp'.kept = 0)
     => /\ ShownAfter = ShownBefore
        /\ Persisted(slot') = Persisted(slot)]_vars

\* A delete of an id no entry has, with entries shown and persisted.
C16_Witness ==
  /\ lastOp.op = "delete"
  /\ lastOp.shown = 0
  /\ lastOp.kept = 0
  /\ lastOp.readOk
  /\ lastOp.writeOk
  /\ Len(tabs[1].savedMedia) = 2
  /\ Len(Persisted(slot)) = 2

\* C17: a delete removes every entry with the id from the in-memory
\* collection and, unless the slot is absent, unreadable or unwritable,
\* from the persisted collection, the other entries keeping their order;
\* when storage fails the slot stays as it is; error and storageError are
\* never touched.
C17_DeleteRemovesAll ==
  [][DeleteStep
     => /\ ShownAfter = Others(ShownBefore, lastOp'.id)
        /\ (lastOp'.readOk /\ lastOp'.writeOk)
             => Persisted(slot') = Others(Persisted(slot), lastOp'.id)
        /\ (~lastOp'.readOk \/ ~lastOp'.writeOk) => slot' = slot
        /\ tabs'[lastOp'.tab].error = tabs[lastOp'.tab].error
        /\ tabs'[lastOp'.tab].storageError
             = tabs[lastOp'.tab].storageError]_vars

\* A delete that removed two entries sharing an id from both collections
\* and left a third.
C17_Witness ==
  /\ lastOp.op = "delete"
  /\ lastOp.readOk
  /\ lastOp.writeOk
  /\ lastOp.shown = 2
  /\ lastOp.kept = 2
  /\ Len(tabs[1].savedMedia) = 1
  /\ Len(Persisted(slot)) = 1

\* ------------------------------------------------------------------------
\* Properties of a session: handleGenerate and handleVideoGeneration.

\* C18: in every state a tab awaits at most one generation call, image or
\* video, and isLoading and isAnimating are not both true; so no call is
\* started while another is awaited.
C18_OneCallAtATime ==
  \A t \in TabIds :
    /\ Len(tabs[t].calls) <= 1
    /\ ~(tabs[t].isLoading /\ tabs[t].isAnimating)
    /\ tabs[t].isLoading
         <=> (\E i \in 1..Len(tabs[t].calls) : tabs[t].calls[i].fn = "image")
    /\ tabs[t].isAnimating
         <=> (\E i \in 1..Len(tabs[t].calls) : tabs[t].calls[i].fn = "video")

\* The dialog is open, with its Generate Video button, while an image
\* call is awaited.
C18_Witness ==
  /\ tabs[1].isLoading
  /\ tabs[1].showVideoPrompt
  /\ Len(tabs[1].calls) = 1
  /\ tabs[1].lastCall.fn = "video"

\* The tab awaits nothing.
Idle(t) ==
  tabs[t].calls = <<>> /\ ~tabs[t].isLoading /\ ~tabs[t].isAnimating

\* C20: once the latest call has settled, a failed image call has left no
\* image, no video and an error message; a failed video call no video and
\* an error message; a successful call of either kind no error message. So
\* an idle tab never holds both a result and an error of its latest call.
C20_ResultOrError ==
  \A t \in TabIds :
    LET s == tabs[t]
    IN (Idle(t) /\ s.lastCall.fn # "none")
       => /\ (s.lastCall.fn = "image" /\ ~s.lastCall.ok)
               => /\ ~IsSet(s.generatedImage)
                  /\ ~IsSet(s.generatedVideo)
                  /\ IsSet(s.error)
          /\ (s.lastCall.fn = "video" /\ ~s.lastCall.ok)
               => ~IsSet(s.generatedVideo) /\ IsSet(s.error)
          /\ s.lastCall.ok => ~IsSet(s.error)
          /\ (s.lastCall.fn = "image" /\ s.lastCall.ok)
               => IsSet(s.generatedImage)

\* A video call failed with an error that has no message, the image of the
\* call before it still displayed.
C20_Witness ==
  /\ Idle(1)
  /\ tabs[1].lastCall.fn = "video"
  /\ ~tabs[1].lastCall.ok
  /\ IsSet(tabs[1].generatedImage)
  /\ tabs[1].error = ObjectProgressEvent

\* ------------------------------------------------------------------------
\* Properties of two tabs sharing the slot.

\* The entries some tab stored that are missing from the persisted
\* collection although no tab deleted their id.
LostEntries ==
  {e \in ledger.stored :
     /\ e.id \notin ledger.deleted
     /\ \A i \in 1..Len(Persisted(slot)) : Persisted(slot)[i] # e}

\* C19: two tabs can lose an update: an entry one tab stored goes missing
\* from the persisted collection without any tab deleting it, and this
\* happens only when a tab writes back a list it read before another
\* tab's write (the last write wins).
C19_LostOnlyByOverlap == LostEntries # {} => ledger.overlapped

\* An entry stored by one tab is gone, no tab has deleted it, and both
\* tabs have finished their handlers.
C19_Witness ==
  /\ LostEntries # {}
  /\ \A t \in TabIds : AtRest(t)
  /\ \E t \in TabIds : \E i \in 1..Len(tabs[t].savedMedia) :
       tabs[t].savedMedia[i] \in LostEntries

\* ------------------------------------------------------------------------
\* Properties of the polling loop (lines 168-172).

\* Number of job handles received so far that were not done.
NotDoneReports == Cardinality({i \in 1..Len(reports) : reports[i] # "true"})

\* C23: one 10-second timer is started for each job handle that is not
\* done and for no other reason; each timer is followed by one status
\* query, so the status queries sent are the timers started, less the one
\* still running; a submission that is answered with a done handle starts
\* no timer and sends no status query.
C23_OneWaitPerQuery ==
  /\ PollIntervalMs = 10000
  /\ waits = NotDoneReports
  /\ statusQueries = IF pc = "waiting" THEN waits - 1 ELSE waits
  /\ pc = "querying" => waits >= 1 /\ reports[Len(reports)] # "true"
  /\ (Len(reports) >= 1 /\ reports[1] = "true") =>
       /\ Len(reports) = 1
       /\ waits = 0
       /\ statusQueries = 0

\* A returned video call whose submission and first status query were
\* answered not done: two timers, two status queries.
C23_Witness ==
  /\ call.fn = "video"
  /\ pc = "returned"
  /\ reports = <<"false", "undefined", "true">>
  /\ waits = 2
  /\ statusQueries = 2

\* ------------------------------------------------------------------------
\* The error kinds that start a second request, in both generators.

\* The fast submission of the video call in progress was rejected.
FirstSubmissionRejected == call.fn = "video" /\ Len(submitErrors) >= 1

\* C24 as stated: a first video submission rejected with "403",
\* "PERMISSION_DENIED", "404" or "NOT_FOUND" in the error text is followed
\* by one resubmission, to the other model variant.
C24_ResubmitOnDeniedOrNotFound ==
  (FirstSubmissionRejected /\ CarriesMarker(submitErrors[1])) =>
    /\ Len(submissions) = 2
    /\ submissions[2].model = VeoStandardModel

\* C24, amended: the video path resubmits (once, to the standard variant)
\* exactly when the text of the first rejection carries "404" or
\* "NOT_FOUND"; a rejection carrying only "403" or "PERMISSION_DENIED" fails
\* the call with that error after the one submission.  The image path, on
\* its quality path, sends its one fallback request exactly when the text
\* of the first failure carries any of the four markers.
C24_VideoResubmitsOnNotFoundOnly ==
  /\ FirstSubmissionRejected =>
       /\ submissions[1].model = VeoFastModel
       /\ IF CarriesNotFound(submitErrors[1])
          THEN Len(submissions) = 2 /\ submissions[2].model = VeoStandardModel
          ELSE /\ Len(submissions) = 1
               /\ pc = "failed"
               /\ result = Thrown(submitErrors[1])
  /\ (QualityPath /\ Len(attempts) >= 1 /\ attempts[1].kind = "err") =>
       Len(requests) = IF CarriesMarker(attempts[1].error) THEN 2 ELSE 1

\* A video call that failed with the "403" rejection of its only
\* submission.
C24_Witness ==
  /\ call.fn = "video"
  /\ pc = "failed"
  /\ submitErrors = <<Err(NameApiError, MsgStatus403)>>
  /\ Len(submissions) = 1
  /\ result = Thrown(Err(NameApiError, MsgStatus403))

\* ------------------------------------------------------------------------
\* The busy flags.

\* The step ends an awaited call of tab t made by fn: the call leaves the
\* list of awaited calls and becomes the latest call that settled.
CallEnds(t, fn) ==
  /\ \E i \in 1..Len(tabs[t].calls) :
       /\ tabs[t].calls[i].fn = fn
       /\ tabs'[t].calls = Remove(tabs[t].calls, i)
  /\ tabs'[t].lastCall.fn = fn

\* The step loads the page anew: the App that held the flags is gone.
PageLoads == lastOp'.op = "load"

\* C21: a busy flag that is set stays set at every step of the page that
\* does not end the handler's call, and the step that ends the call clears
\* it, whether the call returned or threw; where the service answers every
\* call, a set flag is cleared in time.
C21_BusyUntilSettled ==
  /\ [][\A t \in TabIds :
          /\ (tabs[t].isLoading /\ ~PageLoads) =>
               (tabs'[t].isLoading \/ CallEnds(t, "image"))
          /\ (tabs[t].isAnimating /\ ~PageLoads) =>
               (tabs'[t].isAnimating \/ CallEnds(t, "video"))
          /\ CallEnds(t, "image") => ~tabs'[t].isLoading
          /\ CallEnds(t, "video") => ~tabs'[t].isAnimating]_vars
  /\ \A t \in TabIds :
       /\ tabs[t].isLoading ~> ~tabs[t].isLoading
       /\ tabs[t].isAnimating ~> ~tabs[t].isAnimating

\* A video call was rejected and isAnimating is cleared, the image it was
\* to animate still shown.
C21_Witness ==
  /\ tabs[1].lastCall.fn = "video"
  /\ ~tabs[1].lastCall.ok
  /\ ~tabs[1].isAnimating
  /\ ~tabs[1].isLoading
  /\ IsSet(tabs[1].error)
  /\ IsSet(tabs[1].generatedImage)

\* ------------------------------------------------------------------------
\* The order of the collections.

\* No entry of the list is older than an entry behind it.
NewestFirst(list) ==
  \A i, j \in 1..Len(list) : i < j => list[i].date >= list[j].date

IdsOf(list) == [i \in 1..Len(list) |-> list[i].id]

\* The slot holds nothing or the JSON text of a list: reading the
\* collection from it succeeds.
Readable(text) == text.json \in {"absent", "array"}

\* What the tab shows and what the slot holds list the same ids in the same
\* order, before and after the step.
InSync == IdsOf(ShownBefore) = IdsOf(Persisted(slot))
InSyncAfter == IdsOf(ShownAfter) = IdsOf(Persisted(slot'))

\* C25: a load whose read succeeds leaves the shown and the persisted
\* collection with the same ids in the same order, and every save and
\* delete whose storage calls succeed keeps them so; hence they agree after
\* the first load and any saves and deletes as long as no storage call has
\* failed.
C25_SameIdsInOrder ==
  [][/\ (LoadStep /\ lastOp'.readOk /\ Readable(slot)) => InSyncAfter
     /\ (SaveStep /\ lastOp'.stored /\ InSync) => InSyncAfter
     /\ (DeleteStep /\ lastOp'.readOk /\ lastOp'.writeOk /\ Readable(slot)
           /\ InSync) => InSyncAfter]_vars

\* A delete that worked on both collections and left two entries in each.
C25_Witness ==
  /\ lastOp.op = "delete"
  /\ lastOp.readOk
  /\ lastOp.writeOk
  /\ lastOp.shown >= 1
  /\ lastOp.kept >= 1
  /\ Len(tabs[1].savedMedia) = 2
  /\ IdsOf(tabs[1].savedMedia) = IdsOf(Persisted(slot))

\* ------------------------------------------------------------------------
\* The media on display.

\* C26: whenever a tab displays a video it displays an image too, and that
\* image is the one the video call that returned the video was given as
\* its source.
C26_VideoOfDisplayedImage ==
  \A t \in TabIds :
    IsSet(tabs[t].generatedVideo) =>
      /\ IsSet(tabs[t].generatedImage)
      /\ tabs[t].lastCall.fn = "video"
      /\ tabs[t].lastCall.ok
      /\ tabs[t].lastCall.image = tabs[t].generatedImage

\* A video is displayed over the second of the two images the service
\* returns, the dialog closed and no call awaited.
C26_Witness ==
  /\ IsSet(tabs[1].generatedVideo)
  /\ tabs[1].generatedImage = DataUri(MimeJpeg, PayloadB)
  /\ tabs[1].lastCall.fn = "video"
  /\ tabs[1].lastCall.image = DataUri(MimeJpeg, PayloadB)
  /\ tabs[1].calls = <<>>

\* ------------------------------------------------------------------------
\* The guards of the handlers.

\* The step changes the state of a tab (flags, error, media, gallery,
\* dialog, awaited calls) or the slot.
Changes == tabs' # tabs \/ slot' # slot

\* C27: in every state the page can be in, handleGenerate called with a
\* blank prompt, handleVideoGeneration called with no image on display and
\* handleSaveToGallery called for a kind of which no media is on display
\* return (the handler can run) without awaiting a call, writing the slot
\* or changing any state of the tab.
C27_GuardedNoOps ==
  \A t \in TabIds :
    /\ ~Truthy(Trim(tabs[t].prompt)) =>
         /\ ENABLED handleGenerate(t)
         /\ ~ENABLED (handleGenerate(t) /\ Changes)
    /\ ~IsSet(tabs[t].generatedImage) =>
         /\ ENABLED handleVideoGeneration(t)
         /\ ~ENABLED (handleVideoGeneration(t) /\ Changes)
         /\ ENABLED handleSaveToGallery(t, "image", now, now, TRUE, TRUE)
         /\ ~ENABLED (handleSaveToGallery(t, "image", now, now, TRUE, TRUE)
                        /\ Changes)
    /\ ~IsSet(tabs[t].generatedVideo) =>
         /\ ENABLED handleSaveToGallery(t, "video", now, now, TRUE, TRUE)
         /\ ~ENABLED (handleSaveToGallery(t, "video", now, now, TRUE, TRUE)
                        /\ Changes)

\* The dialog is open although the image it was opened for is gone (a new
\* image is being generated), the prompt has been blanked meanwhile, and a
\* click on Generate Video has just changed nothing.
C27_Witness ==
  /\ tabs[1].showVideoPrompt
  /\ ~IsSet(tabs[1].generatedImage)
  /\ ~IsSet(tabs[1].generatedVideo)
  /\ tabs[1].isLoading
  /\ tabs[1].prompt = BlankPrompt
  /\ Len(tabs[1].calls) = 1
  /\ ENABLED (ClickGenerateVideo(1) /\ tabs' = tabs)

\* ------------------------------------------------------------------------
\* What the Save button records.

\* The state of the tab whose handler the step ran, before the step.
SavingTab == tabs[lastOp'.tab]

\* C28: every run of handleSaveToGallery the Save button starts builds an
\* entry; the entry is a video with the displayed video as its url when a
\* video is on display, else an image with the displayed image as its url;
\* its url is never null or empty, and it is the entry the tab then shows
\* first.
C28_KindMatchesContent ==
  [][lastOp'.op = "save" =>
       /\ ~lastOp'.skipped
       /\ IF IsSet(SavingTab.generatedVideo)
          THEN /\ lastOp'.entry.type = "video"
               /\ lastOp'.entry.url = SavingTab.generatedVideo
          ELSE /\ lastOp'.entry.type = "image"
               /\ lastOp'.entry.url = SavingTab.generatedImage
       /\ lastOp'.entry.url # Null
       /\ lastOp'.entry.url # EmptyStr
       /\ ShownAfter[1] = lastOp'.entry]_vars

\* A video entry has just been saved while its video and the image it
\* animates are on display.
C28_Witness ==
  /\ lastOp.op = "save"
  /\ ~lastOp.skipped
  /\ lastOp.entry.type = "video"
  /\ lastOp.entry.url = tabs[1].generatedVideo
  /\ IsSet(tabs[1].generatedImage)
  /\ tabs[1].savedMedia[1].type = "video"

\* ------------------------------------------------------------------------
\* The prompt and the aspect ratio of a saved entry.

\* The step changes the prompt field or the aspect-ratio selection of tab
\* t on the page that is shown.
SelectionChanges(t) ==
  /\ ~PageLoads
  /\ \/ tabs'[t].prompt # tabs[t].prompt
     \/ tabs'[t].aspectRatio # tabs[t].aspectRatio

\* The media tab t displays are the same after the step.
MediaKept(t) ==
  /\ tabs'[t].generatedImage = tabs[t].generatedImage
  /\ tabs'[t].generatedVideo = tabs[t].generatedVideo

\* C29 as stated: every saved entry records the aspect ratio selected and
\* the prompt field as they are when it is saved, and changing either
\* leaves the displayed media as they are.
C29_RecordsPromptField ==
  [][/\ SaveStep =>
          /\ lastOp'.entry.aspectRatio = SavingTab.aspectRatio
          /\ lastOp'.entry.prompt = SavingTab.prompt
     /\ \A t \in TabIds : SelectionChanges(t) => MediaKept(t)]_vars

\* C29, amended: every saved entry records the aspect ratio selected when
\* it is saved; an image entry, and a video entry saved while the video
\* prompt of the dialog is empty, records the prompt field as it is then; a
\* video entry saved while the video prompt is not empty records the video
\* prompt, as typed, whatever the prompt field holds.  Changing the prompt
\* field or the aspect ratio leaves the displayed media as they are.
C29_RecordsValuesAtSave ==
  [][/\ SaveStep =>
          /\ lastOp'.entry.aspectRatio = SavingTab.aspectRatio
          /\ lastOp'.entry.prompt =
               IF lastOp'.entry.type = "video"
                    /\ SavingTab.videoPrompt # EmptyStr
               THEN SavingTab.videoPrompt
               ELSE SavingTab.prompt
     /\ \A t \in TabIds : SelectionChanges(t) => MediaKept(t)]_vars

\* An image entry has just been saved with a blank prompt, which no image
\* can have been generated from, and the portrait ratio; the image is still
\* on display.
C29_Witness ==
  /\ lastOp.op = "save"
  /\ ~lastOp.skipped
  /\ lastOp.entry.type = "image"
  /\ lastOp.entry.prompt = BlankPrompt
  /\ lastOp.entry.aspectRatio = "9:16"
  /\ lastOp.entry.url = tabs[1].generatedImage
  /\ tabs[1].prompt = BlankPrompt

====
